---- MODULE Spec2Model ----
(***************************************************************************)
(* ConversationApp: the session store's transcription queue, the           *)
(* background transcription started by AudioRecorder.handleSaveRecording,   *)
(* the server route POST /conversations/:id/transcribe with MemStorage,     *)
(* the TranscriptionQueue component's auto-removal effect, the            *)
(* AudioRecorderService capture engine, the AudioPlayerService playback    *)
(* engine, the AudioPlayer component, the session fields of the store with *)
(* resetSession, transcribeAudio of server/lib/openai.ts and the poll of   *)
(* TranscriptEditor.                                                       *)
(*                                                                         *)
(* Time is counted in milliseconds: the queue's clock advances in steps of *)
(* 2.5 seconds, the capture engine's in telemetry periods.  Positions in   *)
(* an audio resource are in seconds.                                        *)
(* JavaScript runs every handler to completion: an action is one handler,  *)
(* or the part of an async handler between two awaits.                     *)
(***************************************************************************)
EXTENDS Integers, Sequences, FiniteSets, TLC

(***************************************************************************)
(* Bounds of the model.                                                    *)
(***************************************************************************)
MaxConv == 2        \* conversations the server creates (ids 1..MaxConv)
MaxQueue == 2       \* queue length explored when the store is driven directly
MaxStarts == 2      \* calls of AudioRecorderService.start
MaxChunks == 2      \* data chunks a capture delivers
MaxManual == 1      \* clicks on Generate Transcript
MaxTicks == 4       \* telemetry periods the clock advances
MaxLength == 8      \* seconds of audio in the longest resource
MaxRuns == 2        \* calls of the service or of the routes when driven directly

(***************************************************************************)
(* Program constants.                                                      *)
(***************************************************************************)
EvictionDelay == 5000       \* setTimeout(..., 5000) of the auto-removal effect
TelemetryPeriod == 100      \* setInterval(() => this.updateState(), 100)
DefaultStep == 5            \* rewind(seconds = 5), forward(seconds = 5)
BytesPerSecond == 16384     \* 128 * 1024 / 8: bytes per second at 128 kbps

ConvIds == 1..MaxConv
Paths == {"a.wav", "b.wav"}
Undefined == "undefined"    \* the value of an optional field that is not set

VARIABLES
  transcriptionQueue,   \* useSessionStore: TranscriptionQueueItem[]
  evictionTimers,       \* pending setTimeout callbacks of the effect: the
                        \* conversation each removes and the ms left (timers
                        \* of one conversation due together are one element)
  sinceCompleted,       \* per conversation: ms since its job was marked completed
  savePc,               \* position of handleSaveRecording
  saveConv,             \* the conversation handleSaveRecording is working on
  conversationId,       \* MemStorage.conversationId (next id)
  conversations,        \* MemStorage.conversations: id -> audioPath
  transcriptionId,      \* MemStorage.transcriptionId (next id)
  transcriptions,       \* MemStorage.transcriptions: set of rows
  calls,                \* the POST .../transcribe requests dispatched, in order
  enqueues,             \* per conversation: calls of addToTranscriptionQueue
  evicted,              \* conversations whose job a timer of the effect removed
  isTranscribing,       \* useSessionStore: isTranscribing
  rec,                  \* the fields of the AudioRecorderService singleton
  dev,                  \* the browser: streams, node graphs, intervals, recorders
  startCalls,           \* the promise of every start() call, in call order
  recordingState,       \* useSessionStore: recordingState
  now,                  \* Date.now(), in ms
  hist,                 \* history of the capture engine (not program state):
                        \* superseded: recorders that were recording or paused
                        \*   when start() was called;
                        \* captured: the chunks delivered since the most recent
                        \*   start() call, in order;
                        \* recorded: ms the recorder of the capture in progress
                        \*   has spent recording;
                        \* lastCall: the last pause(), resume() or stop() since
                        \*   the most recent start() call, and the recorder
                        \*   state it found
  playbackState,        \* useSessionStore: playbackState
  player,               \* the fields of the AudioPlayerService singleton
  view,                 \* the AudioPlayer component: its audio element and its
                        \* local state
  lastSeek,             \* history: the last seek, rewind, forward or stop call
  media,                \* the browser as the playback service uses it: how many
                        \* of the service's audio elements hold a resource and
                        \* how many of its intervals are active
  currentSessionData,   \* useSessionStore: currentSessionData
  storeCall,            \* history: the last operation called on the store
                        \* when it is driven directly, and whether it found
                        \* the case looked at: a resetSession every field it
                        \* writes changed, a remove a processing job of that
                        \* id beside other jobs, an update no job of that id
  service,              \* server/lib/openai.ts: whether an API key is
                        \* configured, and the transcribeAudio calls made
  editor                \* TranscriptEditor: the conversations store as far as
                        \* it reads it (the selected id, 0 for null, and which
                        \* conversations have a transcription), isEditing,
                        \* what its last render saw, and its polling interval;
                        \* stored: the transcriptions the server has;
                        \* fetching: GET /api/conversations is under way

storeVars == <<transcriptionQueue>>
queueVars == <<evictionTimers, sinceCompleted, savePc, saveConv,
               conversationId, conversations, transcriptionId, transcriptions,
               calls, enqueues, evicted, isTranscribing>>
captureVars == <<rec, dev, startCalls, recordingState, now, hist>>
playVars == <<playbackState, player, view, lastSeek, media>>
sessionVars == <<currentSessionData, storeCall>>
vars == <<storeVars, queueVars, captureVars, playVars, sessionVars, service, editor>>

(***************************************************************************)
(* The session store (sessionStore): the three queue operations.           *)
(***************************************************************************)
Statuses == {"pending", "processing", "completed", "failed"}

\* { ...item, status: 'pending' } appended to the queue
AddToTranscriptionQueue(queue, item) ==
  Append(queue, [conversationId |-> item.conversationId,
                 audioPath |-> item.audioPath,
                 status |-> "pending",
                 error |-> Undefined])

\* { ...item, ...update }
Merge(item, update) ==
  [f \in DOMAIN item |-> IF f \in DOMAIN update THEN update[f] ELSE item[f]]

\* an update that inserts the job when the queue has none with that id
UpdateOrInsert(queue, id, update) ==
  IF \E i \in 1..Len(queue) : queue[i].conversationId = id
    THEN [i \in 1..Len(queue) |->
            IF queue[i].conversationId = id THEN Merge(queue[i], update) ELSE queue[i]]
    ELSE Append(queue, Merge([conversationId |-> id, audioPath |-> "a.wav",
                              status |-> "pending", error |-> Undefined], update))

\* queue.map(item => item.conversationId === conversationId
\*                     ? { ...item, ...update } : item)
UpdateTranscriptionQueueItem(queue, id, update) ==
  [i \in 1..Len(queue) |->
     IF queue[i].conversationId = id THEN Merge(queue[i], update) ELSE queue[i]]

\* a remove that leaves jobs alone that are pending or processing
RemoveFinishedOnly(queue, id) ==
  SelectSeq(queue, LAMBDA item : \/ item.conversationId # id
                                 \/ item.status \in {"pending", "processing"})

\* queue.filter(item => item.conversationId !== conversationId)
RemoveFromTranscriptionQueue(queue, id) ==
  SelectSeq(queue, LAMBDA item : item.conversationId # id)

JobsOf(queue, id) == {i \in 1..Len(queue) : queue[i].conversationId = id}
InQueue(id) == JobsOf(transcriptionQueue, id) # {}
JobOf(id) == transcriptionQueue[CHOOSE i \in JobsOf(transcriptionQueue, id) : TRUE]
HasStatus(id, s) == \E i \in JobsOf(transcriptionQueue, id) : transcriptionQueue[i].status = s


(***************************************************************************)
(* TranscriptionQueue component: the auto-removal effect.  It runs after   *)
(* every change of transcriptionQueue and sets one 5 s timer for every     *)
(* item that is completed at that moment.                                  *)
(***************************************************************************)
\* the filter also keeps failed items
FinishedItems(queue) ==
  {i \in 1..Len(queue) : queue[i].status \in {"completed", "failed"}}

CompletedItems(queue) == {i \in 1..Len(queue) : queue[i].status = "completed"}

\* setTimeout without its delay
ScheduleAtOnce(queue, timers) ==
  timers \cup {[id |-> queue[i].conversationId, remaining |-> 0] :
                 i \in CompletedItems(queue)}

\* the effect sets no timer
ScheduleNone(queue, timers) == timers

ScheduleEvictions(queue, timers) ==
  LET done == CompletedItems(queue)
      ids == {queue[i].conversationId : i \in done}
  IN timers \cup {[id |-> c, remaining |-> EvictionDelay] : c \in ids}

\* ms since the job of each conversation was marked completed (-1: it is not)
Age(queue, since) ==
  [c \in ConvIds |->
     IF \E i \in CompletedItems(queue) : queue[i].conversationId = c
       THEN (IF since[c] = -1 THEN 0 ELSE since[c])
       ELSE -1]

\* what follows every write of transcriptionQueue while the component is mounted
QueueChanged(timers) ==
  /\ evictionTimers' = ScheduleEvictions(transcriptionQueue', timers)
  /\ sinceCompleted' = Age(transcriptionQueue', sinceCompleted)

(***************************************************************************)
(* Server: MemStorage and the transcribe route.                            *)
(***************************************************************************)
\* `${Date.now()}-${randomUUID()}.wav`, abstracted to one of two names
FileName(id) == IF id % 2 = 1 THEN "a.wav" ELSE "b.wav"

CreateConversation(rows, id) == rows \cup {[id |-> id, audioPath |-> FileName(id)]}

GetConversation(id) == {c \in conversations : c.id = id}

GetTranscription(rows, conv) == {t \in rows : t.conversationId = conv}

\* the route answers without storing the text
StoreNothing(rows, nextId, conv, text) == [rows |-> rows, nextId |-> nextId]

\* the route creates a transcription without looking for an existing one
StoreAlwaysCreates(rows, nextId, conv, text) ==
  [rows |-> rows \cup {[id |-> nextId, conversationId |-> conv,
                        text |-> text, isEdited |-> FALSE]},
   nextId |-> nextId + 1]

\* get-then-update-or-create of the transcribe route.  MemStorage's methods are
\* async functions without I/O: from the answer of transcribeAudio to res.json
\* the route only passes through promise jobs, which Node runs before the next
\* I/O callback, so no other request runs in between.
StoreTranscription(rows, nextId, conv, text) ==
  LET existing == GetTranscription(rows, conv) IN
  IF existing # {}
    THEN [rows |-> (rows \ existing) \cup
                     {[t EXCEPT !.text = text, !.isEdited = TRUE] : t \in existing},
          nextId |-> nextId]
    ELSE [rows |-> rows \cup {[id |-> nextId, conversationId |-> conv,
                               text |-> text, isEdited |-> FALSE]},
          nextId |-> nextId + 1]

\* a POST /api/conversations/:id/transcribe request and who sent it (text 0:
\* no text returned; error: the message of a 500 answer after transcribeAudio)
NewCall(conv, origin) ==
  [conversationId |-> conv, origin |-> origin, phase |-> "sent", status |-> 0,
   text |-> 0, error |-> ""]

\* the request is sent twice
DispatchTwice(log, conv, origin) ==
  Append(Append(log, NewCall(conv, origin)), NewCall(conv, origin))

DispatchTranscribe(log, conv, origin) == Append(log, NewCall(conv, origin))

Respond(i, code) == calls' = [calls EXCEPT ![i].phase = "responded", ![i].status = code]

FileOutcomes == {"ok", "missing", "empty"}

\* getConversation, then fileStorage.getAudioFile (throws when missing or empty)
ServerReceive(i, file) ==
  /\ calls[i].phase = "sent"
  /\ IF GetConversation(calls[i].conversationId) = {} THEN Respond(i, 404)
     ELSE IF file # "ok" THEN Respond(i, 500)
     ELSE calls' = [calls EXCEPT ![i].phase = "transcribing"]
  /\ UNCHANGED <<transcriptionQueue, evictionTimers, sinceCompleted,
                 savePc, saveConv, conversationId, conversations,
                 transcriptionId, transcriptions, enqueues, evicted,
                 isTranscribing, captureVars, playVars, sessionVars, service, editor>>

\* what openai.transcribeAudio ends with: a thrown error, empty text or a text
ServiceOutcomes == {"MISSING_API_KEY", "network", "empty", "text"}

\* The text returned for call i, named after the call.  No code inspects a
\* text, so the texts of different calls are kept apart.
TextOf(i) == i

\* transcribeAudio's empty text is stored as a transcription
ExternalReturnsStoresEmpty(i, outcome) ==
  /\ calls[i].phase = "transcribing"
  /\ IF outcome \notin {"text", "empty"}
       THEN /\ Respond(i, 500)
            /\ UNCHANGED <<transcriptions, transcriptionId>>
       ELSE LET st == StoreTranscription(transcriptions, transcriptionId,
                                         calls[i].conversationId, TextOf(i))
            IN /\ transcriptions' = st.rows
               /\ transcriptionId' = st.nextId
               /\ calls' = [calls EXCEPT ![i].phase = "responded",
                                         ![i].status = 200, ![i].text = TextOf(i)]
  /\ UNCHANGED <<transcriptionQueue, evictionTimers, sinceCompleted,
                 savePc, saveConv, conversationId, conversations, enqueues,
                 evicted, isTranscribing, captureVars, playVars, sessionVars, service, editor>>

ExternalReturns(i, outcome) ==
  /\ calls[i].phase = "transcribing"
  /\ IF outcome # "text"
       THEN /\ calls' = [calls EXCEPT
                         ![i].phase = "responded", ![i].status = 500,
                         ![i].error = IF outcome = "empty"
                                        THEN "OpenAI transcription returned empty text"
                                        ELSE "Failed to process audio file"]
            /\ UNCHANGED <<transcriptions, transcriptionId>>
       ELSE LET st == StoreTranscription(transcriptions, transcriptionId,
                                         calls[i].conversationId, TextOf(i))
            IN /\ transcriptions' = st.rows
               /\ transcriptionId' = st.nextId
               /\ calls' = [calls EXCEPT ![i].phase = "responded",
                                         ![i].status = 200, ![i].text = TextOf(i)]
  /\ UNCHANGED <<transcriptionQueue, evictionTimers, sinceCompleted,
                 savePc, saveConv, conversationId, conversations, enqueues,
                 evicted, isTranscribing, captureVars, playVars, sessionVars, service, editor>>

\* the request never reaches the server: fetch rejects
NetworkFails(i) ==
  /\ calls[i].phase = "sent"
  /\ Respond(i, 0)
  /\ UNCHANGED <<transcriptionQueue, evictionTimers, sinceCompleted,
                 savePc, saveConv, conversationId, conversations,
                 transcriptionId, transcriptions, enqueues, evicted,
                 isTranscribing, captureVars, playVars, sessionVars, service, editor>>


(***************************************************************************)
(* Client: apiRequest and the background transcription of                  *)
(* handleSaveRecording.                                                    *)
(***************************************************************************)
StatusText(code) == IF code = 404 THEN "Not Found" ELSE "Internal Server Error"

ErrorLine(code) ==
  IF code = 404 THEN "404: Conversation not found"
                ELSE "500: Failed to process audio file"

Settled(kind, ok, statusText, message) ==
  [kind |-> kind, ok |-> ok, statusText |-> statusText, isError |-> TRUE,
   message |-> message]

\* How the promise of apiRequest settles for a call the server (or the network)
\* has answered.  A response that is not ok is either handed to the caller or
\* turned into a thrown Error: the callers are written for both.
ApiRequestResults(call) ==
  IF call.status = 0 THEN {Settled("rejected", FALSE, "", "Failed to fetch")}
  ELSE IF call.status = 200 THEN {Settled("resolved", TRUE, "OK", "")}
  ELSE {Settled("resolved", FALSE, StatusText(call.status), ""),
        Settled("resolved", FALSE, "", ""),
        Settled("rejected", FALSE, "", ErrorLine(call.status))}

\* the promise chain without its .catch: a rejection leaves the job as it is
TranscribeSettledNoCatch(queue, id, result) ==
  IF result.kind = "resolved"
    THEN IF ~result.ok
           THEN UpdateTranscriptionQueueItem(queue, id,
                  [status |-> "failed",
                   error |-> "Failed to transcribe: " \o result.statusText])
           ELSE UpdateTranscriptionQueueItem(queue, id, [status |-> "completed"])
    ELSE queue

\* only the callback of an ok response touches the job
TranscribeSettledOkOnly(queue, id, result) ==
  IF result.kind = "resolved" /\ result.ok
    THEN UpdateTranscriptionQueueItem(queue, id, [status |-> "completed"])
    ELSE queue

\* a response that is not ok puts the job back to pending
TranscribeSettledRetry(queue, id, result) ==
  IF result.kind = "resolved" /\ result.ok
    THEN UpdateTranscriptionQueueItem(queue, id, [status |-> "completed"])
    ELSE UpdateTranscriptionQueueItem(queue, id, [status |-> "pending"])

\* the .then and .catch callbacks of the background call
TranscribeSettled(queue, id, result) ==
  IF result.kind = "resolved"
    THEN IF ~result.ok
           THEN UpdateTranscriptionQueueItem(queue, id,
                  [status |-> "failed",
                   error |-> "Failed to transcribe: " \o result.statusText])
           ELSE UpdateTranscriptionQueueItem(queue, id, [status |-> "completed"])
    ELSE UpdateTranscriptionQueueItem(queue, id,
           [status |-> "failed",
            error |-> IF result.isError THEN result.message ELSE "Unknown error"])

\* a synchronous block of handleSaveRecording is under way: no other client
\* task (callback, timer, click) runs before it ends
Busy == savePc = "added"

ClientResponse(i, result) ==
  /\ ~Busy
  /\ calls[i].origin = "queue"
  /\ calls[i].phase = "responded"
  /\ result \in ApiRequestResults(calls[i])
  /\ transcriptionQueue' =
       TranscribeSettled(transcriptionQueue, calls[i].conversationId, result)
  /\ calls' = [calls EXCEPT ![i].phase = "done"]
  /\ QueueChanged(evictionTimers)
  /\ UNCHANGED <<savePc, saveConv, conversationId, conversations,
                 transcriptionId, transcriptions, enqueues, evicted,
                 isTranscribing, captureVars, playVars, sessionVars, service, editor>>

(***************************************************************************)
(* handleSaveRecording.                                                    *)
(***************************************************************************)
Names == {"", "Ann"}

\* the handler goes on to the queue although POST /api/conversations failed
SaveSubmitUnchecked(hasBlob, studentName, created) ==
  /\ savePc = "idle"
  /\ IF ~hasBlob
       THEN UNCHANGED <<savePc, saveConv, conversationId, conversations,
                        isTranscribing>>
       ELSE IF studentName = ""
         THEN UNCHANGED <<savePc, saveConv, conversationId, conversations,
                          isTranscribing>>
         ELSE /\ conversationId <= MaxConv
              /\ conversations' = IF created
                                    THEN CreateConversation(conversations, conversationId)
                                    ELSE conversations
              /\ conversationId' = conversationId + 1
              /\ saveConv' = conversationId
              /\ savePc' = "created"
              /\ UNCHANGED isTranscribing
  /\ UNCHANGED <<transcriptionQueue, evictionTimers, sinceCompleted,
                 transcriptionId, transcriptions, calls, enqueues, evicted,
                 captureVars, playVars, sessionVars, service, editor>>

\* the guards, the student lookup and POST /api/conversations (awaited); when
\* the POST fails the catch and finally blocks run
SaveSubmit(hasBlob, studentName, created) ==
  /\ savePc = "idle"
  /\ IF ~hasBlob
       THEN UNCHANGED <<savePc, saveConv, conversationId, conversations,
                        isTranscribing>>
       ELSE IF studentName = ""
         THEN UNCHANGED <<savePc, saveConv, conversationId, conversations,
                          isTranscribing>>
         ELSE IF ~created
           THEN /\ isTranscribing' = FALSE
                /\ UNCHANGED <<savePc, saveConv, conversationId, conversations>>
           ELSE /\ conversationId <= MaxConv
                /\ conversations' = CreateConversation(conversations, conversationId)
                /\ conversationId' = conversationId + 1
                /\ saveConv' = conversationId
                /\ savePc' = "created"
                /\ UNCHANGED isTranscribing
  /\ UNCHANGED <<transcriptionQueue, evictionTimers, sinceCompleted,
                 transcriptionId, transcriptions, calls, enqueues, evicted,
                 captureVars, playVars, sessionVars, service, editor>>

\* an enqueue that waits until no job is processing
SaveEnqueueWhenIdle ==
  /\ savePc = "created"
  /\ \A i \in DOMAIN transcriptionQueue : transcriptionQueue[i].status # "processing"
  /\ transcriptionQueue' =
       AddToTranscriptionQueue(transcriptionQueue,
         [conversationId |-> saveConv, audioPath |-> FileName(saveConv)])
  /\ enqueues' = [enqueues EXCEPT ![saveConv] = @ + 1]
  /\ savePc' = "added"
  /\ QueueChanged(evictionTimers)
  /\ UNCHANGED <<saveConv, conversationId, conversations, transcriptionId,
                 transcriptions, calls, evicted, isTranscribing, captureVars,
                 playVars, sessionVars, service, editor>>

\* addToTranscriptionQueue({ conversationId, audioPath })
SaveEnqueue ==
  /\ savePc = "created"
  /\ transcriptionQueue' =
       AddToTranscriptionQueue(transcriptionQueue,
         [conversationId |-> saveConv, audioPath |-> FileName(saveConv)])
  /\ enqueues' = [enqueues EXCEPT ![saveConv] = @ + 1]
  /\ savePc' = "added"
  /\ QueueChanged(evictionTimers)
  /\ UNCHANGED <<saveConv, conversationId, conversations, transcriptionId,
                 transcriptions, calls, evicted, isTranscribing, captureVars, playVars, sessionVars, service, editor>>

\* status 'processing', the call is dispatched and not awaited, the handler
\* runs to its end (finally: setIsTranscribing(false))
SaveDispatch ==
  /\ savePc = "added"
  /\ transcriptionQueue' =
       UpdateTranscriptionQueueItem(transcriptionQueue, saveConv,
                                    [status |-> "processing"])
  /\ calls' = DispatchTranscribe(calls, saveConv, "queue")
  /\ savePc' = "idle"
  /\ saveConv' = 0
  /\ isTranscribing' = FALSE
  /\ QueueChanged(evictionTimers)
  /\ UNCHANGED <<conversationId, conversations, transcriptionId, transcriptions,
                 enqueues, evicted, captureVars, playVars, sessionVars, service, editor>>

(***************************************************************************)
(* TranscriptEditor: the Generate Transcript button.                       *)
(***************************************************************************)
ManualCalls == {i \in DOMAIN calls : calls[i].origin = "manual"}

\* handleGenerateTranscript up to the await: the button is shown for a
\* conversation of the list that has no transcript, enabled unless isTranscribing
HandleGenerateTranscript(c) ==
  /\ ~Busy
  /\ ~isTranscribing
  /\ enqueues[c] > 0
  /\ GetTranscription(transcriptions, c) = {}
  /\ Cardinality(ManualCalls) < MaxManual
  /\ isTranscribing' = TRUE
  /\ calls' = DispatchTranscribe(calls, c, "manual")
  /\ UNCHANGED <<transcriptionQueue, evictionTimers, sinceCompleted, savePc,
                 saveConv, conversationId, conversations, transcriptionId,
                 transcriptions, enqueues, evicted, captureVars, playVars, sessionVars, service, editor>>

\* the rest of handleGenerateTranscript: setTranscript or the error toast, then
\* finally: setIsTranscribing(false)
GenerateTranscriptSettled(i) ==
  /\ ~Busy
  /\ calls[i].origin = "manual"
  /\ calls[i].phase = "responded"
  /\ calls' = [calls EXCEPT ![i].phase = "done"]
  /\ isTranscribing' = FALSE
  /\ UNCHANGED <<transcriptionQueue, evictionTimers, sinceCompleted, savePc,
                 saveConv, conversationId, conversations, transcriptionId,
                 transcriptions, enqueues, evicted, captureVars, playVars, sessionVars, service, editor>>

(***************************************************************************)
(* TranscriptionQueue component: the remove button and the timers.         *)
(***************************************************************************)
\* the button is rendered for completed and failed items only
ManualRemove(id) ==
  /\ ~Busy
  /\ HasStatus(id, "completed") \/ HasStatus(id, "failed")
  /\ transcriptionQueue' = RemoveFromTranscriptionQueue(transcriptionQueue, id)
  /\ QueueChanged(evictionTimers)
  /\ UNCHANGED <<savePc, saveConv, conversationId, conversations, transcriptionId,
                 transcriptions, calls, enqueues, evicted, isTranscribing,
                 captureVars, playVars, sessionVars, service, editor>>

Due(t) == t \in evictionTimers /\ t.remaining = 0

\* a timer of the effect fires: removeFromTranscriptionQueue(item.conversationId)
EvictionFires(t) ==
  /\ ~Busy
  /\ Due(t)
  /\ transcriptionQueue' = RemoveFromTranscriptionQueue(transcriptionQueue, t.id)
  /\ evicted' = IF InQueue(t.id) THEN evicted \cup {t.id} ELSE evicted
  /\ QueueChanged(evictionTimers \ {t})
  /\ UNCHANGED <<savePc, saveConv, conversationId, conversations, transcriptionId,
                 transcriptions, calls, enqueues, isTranscribing, captureVars, playVars, sessionVars, service, editor>>

\* 2.5 seconds pass
Tick ==
  /\ evictionTimers' =
       {[t EXCEPT !.remaining = IF @ > 2500 THEN @ - 2500 ELSE 0] :
          t \in evictionTimers}
  /\ sinceCompleted' =
       [c \in ConvIds |->
          IF sinceCompleted[c] = -1 THEN -1
          ELSE IF sinceCompleted[c] + 2500 < EvictionDelay
                 THEN sinceCompleted[c] + 2500 ELSE EvictionDelay]
  /\ UNCHANGED <<transcriptionQueue, savePc, saveConv, conversationId,
                 conversations, transcriptionId, transcriptions, calls, enqueues,
                 evicted, isTranscribing, captureVars, playVars, sessionVars, service, editor>>


(***************************************************************************)
(* AudioRecorderService.  Every start() call acquires at most one stream,  *)
(* builds one node graph, one MediaRecorder and one interval: each is      *)
(* named by the index of its call.  0 stands for null.                     *)
(***************************************************************************)
NodeNames == {"source", "highpass", "lowpass", "compressor", "analyser", "processor"}

InitRec == [updateCallback |-> FALSE, audioContext |-> 0, stream |-> 0,
            nodes |-> {}, graph |-> 0, mediaRecorder |-> 0,
            audioChunks |-> <<>>, startTime |-> 0, pausedTime |-> 0,
            intervalId |-> 0]

\* live: streams with live tracks; connected: graphs whose nodes are connected;
\* intervals: active setInterval timers; recorders: state of each MediaRecorder;
\* stopping: recorders whose final dataavailable and stop events are queued
InitDev == [live |-> {}, connected |-> {}, intervals |-> {},
            recorders |-> [i \in 1..MaxStarts |-> "none"], stopping |-> {}]

DisposeAudioNodes(r, d) ==
  [rec |-> [r EXCEPT !.nodes = {}, !.graph = 0],
   dev |-> [d EXCEPT !.connected = IF r.nodes # {} THEN @ \ {r.graph} ELSE @]]

Reset(r, d) ==
  LET n == DisposeAudioNodes([r EXCEPT !.stream = 0],
                             [d EXCEPT !.live = @ \ {r.stream}])
  IN [rec |-> [n.rec EXCEPT !.mediaRecorder = 0, !.audioChunks = <<>>,
                            !.startTime = 0, !.pausedTime = 0,
                            !.intervalId = 0],
      dev |-> [n.dev EXCEPT !.intervals = @ \ {r.intervalId}]]

RecorderState(r, d) ==
  IF r.mediaRecorder = 0 THEN "none" ELSE d.recorders[r.mediaRecorder]

\* the state of the engine as updateState() derives it from the recorder
EngineState(r, d) ==
  CASE RecorderState(r, d) = "paused" -> "Paused"
    [] RecorderState(r, d) = "recording" -> "Recording"
    [] OTHER -> "Idle"

InitHist == [superseded |-> {}, captured |-> <<>>, recorded |-> 0,
             lastCall |-> [op |-> "none", found |-> "none"]]

\* updateState() that reports a paused recorder as not recording
TelemetryPausedIdle(r, d, t) ==
  [isRecording |-> RecorderState(r, d) = "recording",
   isPaused |-> RecorderState(r, d) = "paused",
   duration |-> IF r.startTime > 0
                  THEN IF RecorderState(r, d) = "paused" THEN r.pausedTime
                       ELSE t - r.startTime
                  ELSE 0,
   audioBlob |-> r.audioChunks]

\* the RecordingState updateState() hands to the callback at time t; the
\* duration is kept in ms (the code divides by 1000)
Telemetry(r, d, t) ==
  [isRecording |-> RecorderState(r, d) \in {"recording", "paused"},
   isPaused |-> RecorderState(r, d) = "paused",
   duration |-> IF r.startTime > 0
                  THEN IF RecorderState(r, d) = "paused" THEN r.pausedTime
                       ELSE t - r.startTime
                  ELSE 0,
   audioBlob |-> r.audioChunks]

\* updateState(): handleRecordingUpdate stores the state (an empty blob is undefined)
UpdateState(r, d, t, stored) ==
  IF r.updateCallback THEN Telemetry(r, d, t) ELSE stored

InitialRecordingState ==
  [isRecording |-> FALSE, isPaused |-> FALSE, duration |-> 0, audioBlob |-> <<>>]

\* the catch block without reset(): the error is only thrown again
StartCatchKeep(r, d) == [rec |-> r, dev |-> d]

\* the catch block of start(): reset(), then the error is thrown again
StartCatch(r, d) == Reset(r, d)

\* start() up to the await of getUserMedia
StartCall ==
  /\ Len(startCalls) < MaxStarts
  /\ LET n == Reset([rec EXCEPT !.updateCallback = TRUE], dev)
     IN rec' = n.rec /\ dev' = n.dev
  /\ startCalls' = Append(startCalls, "pending")
  /\ hist' = [hist EXCEPT
                !.superseded = IF RecorderState(rec, dev) \in {"recording", "paused"}
                                 THEN @ \cup {rec.mediaRecorder} ELSE @,
                !.captured = <<>>,
                !.lastCall = InitHist.lastCall]
  /\ UNCHANGED <<recordingState, now, storeVars, queueVars, playVars, sessionVars, service, editor>>

\* getUserMedia rejects (permission denied, no device)
DeviceDenied(i) ==
  /\ startCalls[i] = "pending"
  /\ LET n == StartCatch(rec, dev) IN rec' = n.rec /\ dev' = n.dev
  /\ startCalls' = [startCalls EXCEPT ![i] = "rejected"]
  /\ UNCHANGED <<recordingState, now, hist, storeVars, queueVars, playVars, sessionVars, service, editor>>

FailPoints == {"none", "context", "recorder", "start"}

\* the fields and the browser after the set-up has run, at time t, up to the
\* step that throws
SetUp(r, d, i, failAt, t) ==
  LET r1 == [r EXCEPT !.stream = i]
      d1 == [d EXCEPT !.live = @ \cup {i}]
      r2 == [r1 EXCEPT !.audioContext = IF @ = 0 THEN i ELSE @,
                       !.nodes = NodeNames, !.graph = i]
      d2 == [d1 EXCEPT !.connected = @ \cup {i}]
      r3 == [r2 EXCEPT !.mediaRecorder = i]
      d3 == [d2 EXCEPT !.recorders[i] = "inactive"]
  IN CASE failAt = "context" -> [rec |-> r1, dev |-> d1]
       [] failAt = "recorder" -> [rec |-> r2, dev |-> d2]
       [] failAt = "start" -> [rec |-> [r3 EXCEPT !.startTime = t], dev |-> d3]
       [] OTHER -> [rec |-> [r3 EXCEPT !.startTime = t, !.intervalId = i],
                    dev |-> [d3 EXCEPT !.recorders[i] = "recording",
                                       !.intervals = @ \cup {i}]]

\* getUserMedia resolves and the rest of start() runs
DeviceGranted(i, failAt) ==
  /\ startCalls[i] = "pending"
  /\ LET s == SetUp(rec, dev, i, failAt, now)
         n == IF failAt = "none" THEN s ELSE StartCatch(s.rec, s.dev)
     IN /\ rec' = n.rec
        /\ dev' = n.dev
        /\ recordingState' = IF failAt = "none"
                               THEN UpdateState(n.rec, n.dev, now, recordingState)
                               ELSE recordingState
  /\ startCalls' = [startCalls EXCEPT ![i] = IF failAt = "none" THEN "fulfilled"
                                                              ELSE "rejected"]
  /\ hist' = IF failAt = "none" THEN [hist EXCEPT !.recorded = 0] ELSE hist
  /\ UNCHANGED <<now, storeVars, queueVars, playVars, sessionVars, service, editor>>

\* pause() at time t: the fields and the browser after it, and whether its
\* guard let it act
PauseCall(r, d, t) ==
  IF RecorderState(r, d) = "recording"
    THEN [rec |-> [r EXCEPT !.pausedTime = t - r.startTime],
          dev |-> [d EXCEPT !.recorders[r.mediaRecorder] = "paused"],
          acted |-> TRUE]
    ELSE [rec |-> r, dev |-> d, acted |-> FALSE]

\* resume() whose guard only asks for a recorder that is not inactive
ResumeAnyActive(r, d, t) ==
  IF RecorderState(r, d) \in {"recording", "paused"}
    THEN [rec |-> [r EXCEPT !.startTime = t - r.pausedTime],
          dev |-> [d EXCEPT !.recorders[r.mediaRecorder] = "recording"],
          acted |-> TRUE]
    ELSE [rec |-> r, dev |-> d, acted |-> FALSE]

\* resume() that starts the clock anew
ResumeRestartsClock(r, d, t) ==
  IF RecorderState(r, d) = "paused"
    THEN [rec |-> [r EXCEPT !.startTime = t],
          dev |-> [d EXCEPT !.recorders[r.mediaRecorder] = "recording"],
          acted |-> TRUE]
    ELSE [rec |-> r, dev |-> d, acted |-> FALSE]

\* resume() at time t
ResumeCall(r, d, t) ==
  IF RecorderState(r, d) = "paused"
    THEN [rec |-> [r EXCEPT !.startTime = t - r.pausedTime],
          dev |-> [d EXCEPT !.recorders[r.mediaRecorder] = "recording"],
          acted |-> TRUE]
    ELSE [rec |-> r, dev |-> d, acted |-> FALSE]

Pause ==
  /\ LET n == PauseCall(rec, dev, now)
     IN /\ rec' = n.rec
        /\ dev' = n.dev
        /\ recordingState' = IF n.acted
                               THEN UpdateState(n.rec, n.dev, now, recordingState)
                               ELSE recordingState
  /\ hist' = [hist EXCEPT !.lastCall = [op |-> "pause",
                                        found |-> RecorderState(rec, dev)]]
  /\ UNCHANGED <<startCalls, now, storeVars, queueVars, playVars, sessionVars, service, editor>>

Resume ==
  /\ LET n == ResumeCall(rec, dev, now)
     IN /\ rec' = n.rec
        /\ dev' = n.dev
        /\ recordingState' = IF n.acted
                               THEN UpdateState(n.rec, n.dev, now, recordingState)
                               ELSE recordingState
  /\ hist' = [hist EXCEPT !.lastCall = [op |-> "resume",
                                        found |-> RecorderState(rec, dev)]]
  /\ UNCHANGED <<startCalls, now, storeVars, queueVars, playVars, sessionVars, service, editor>>

\* stop() that leaves a paused recorder alone
StopCallRecordingOnly(r, d) ==
  IF RecorderState(r, d) = "recording"
    THEN [d EXCEPT !.recorders[r.mediaRecorder] = "inactive",
                   !.stopping = @ \cup {r.mediaRecorder}]
    ELSE d

\* stop(): the recorder becomes inactive at once, its last events are queued
StopCall(r, d) ==
  IF RecorderState(r, d) \in {"recording", "paused"}
    THEN [d EXCEPT !.recorders[r.mediaRecorder] = "inactive",
                   !.stopping = @ \cup {r.mediaRecorder}]
    ELSE d

Stop ==
  /\ dev' = StopCall(rec, dev)
  /\ hist' = [hist EXCEPT !.lastCall = [op |-> "stop",
                                        found |-> RecorderState(rec, dev)]]
  /\ UNCHANGED <<rec, recordingState, startCalls, now, storeVars, queueVars, playVars, sessionVars, service, editor>>

\* ondataavailable of a running recorder (every second), event.data.size > 0
DataAvailable(m) ==
  /\ dev.recorders[m] = "recording"
  /\ Len(hist.captured) < MaxChunks
  /\ rec' = [rec EXCEPT !.audioChunks = Append(@, m)]
  /\ hist' = [hist EXCEPT !.captured = Append(@, m)]
  /\ UNCHANGED <<dev, recordingState, startCalls, now, storeVars, queueVars, playVars, sessionVars, service, editor>>

\* the onstop handler: updateState(), the tracks of this.stream are stopped,
\* disposeAudioNodes()
OnStop(r, d) ==
  DisposeAudioNodes(r, [d EXCEPT !.live = @ \ {r.stream}])

\* the queued events of a stopped recorder: the last dataavailable, then stop
RecorderStops(m, hasData) ==
  /\ m \in dev.stopping
  /\ hasData => Len(hist.captured) < MaxChunks
  /\ LET r1 == [rec EXCEPT !.audioChunks = IF hasData THEN Append(@, m) ELSE @]
         d1 == [dev EXCEPT !.stopping = @ \ {m}]
         n == OnStop(r1, d1)
     IN /\ recordingState' = UpdateState(r1, d1, now, recordingState)
        /\ rec' = n.rec
        /\ dev' = n.dev
  /\ hist' = [hist EXCEPT !.captured = IF hasData THEN Append(@, m) ELSE @]
  /\ UNCHANGED <<startCalls, now, storeVars, queueVars, playVars, sessionVars, service, editor>>

\* a telemetry interval fires: updateState()
IntervalFires(t) ==
  /\ t \in dev.intervals
  /\ recordingState' = UpdateState(rec, dev, now, recordingState)
  /\ UNCHANGED <<rec, dev, startCalls, now, hist, storeVars, queueVars, playVars, sessionVars, service, editor>>

\* getAudioBlob(): null, or the blob made of the chunks
Null == <<"null">>
Blob(chunks) == <<"blob", chunks>>
GetAudioBlob(r) == IF Len(r.audioChunks) = 0 THEN Null ELSE Blob(r.audioChunks)

\* One telemetry period passes.  The events a stopped recorder has queued are
\* delivered before the clock moves on.
ClockTick ==
  /\ now < (MaxTicks + 1) * TelemetryPeriod
  /\ dev.stopping = {}
  /\ now' = now + TelemetryPeriod
  /\ hist' = [hist EXCEPT !.recorded = IF RecorderState(rec, dev) = "recording"
                                         THEN @ + TelemetryPeriod ELSE @]
  /\ UNCHANGED <<rec, dev, startCalls, recordingState, storeVars, queueVars, playVars, sessionVars, service, editor>>

(***************************************************************************)
(* HTMLAudioElement.  Times are in seconds.  length is where the resource  *)
(* ends; bounded tells whether its metadata states a duration (the blobs   *)
(* of a MediaRecorder do not).  NaN and Infinity stand for the two         *)
(* non-finite values of audio.duration: NaN is never used in arithmetic,   *)
(* Infinity is larger than every time.                                      *)
(***************************************************************************)
NaN == -1
Infinity == 1000000

Lengths == {3, MaxLength}
SeekTimes == {-DefaultStep, 2, MaxLength + DefaultStep}
Steps == {DefaultStep, -DefaultStep}

Min2(a, b) == IF a <= b THEN a ELSE b
Max2(a, b) == IF a >= b THEN a ELSE b

\* new Audio(): no source
EmptyAudio ==
  [hasSrc |-> FALSE, readyState |-> "HAVE_NOTHING", length |-> 0,
   bounded |-> TRUE, position |-> 0, defaultStart |-> 0, paused |-> TRUE]

\* new Audio(url), or src = url and load()
NewAudio(len, isBounded) ==
  [hasSrc |-> TRUE, readyState |-> "HAVE_NOTHING", length |-> len,
   bounded |-> isBounded, position |-> 0, defaultStart |-> 0, paused |-> TRUE]

\* audio.duration
NativeDuration(a) ==
  IF a.readyState = "HAVE_NOTHING" THEN NaN
  ELSE IF a.bounded THEN a.length ELSE Infinity

\* audio.currentTime: the default playback start position unless that is zero
CurrentTime(a) == IF a.defaultStart # 0 THEN a.defaultStart ELSE a.position

\* audio.currentTime = v: before the metadata is known only the default
\* playback start position is set; afterwards the element seeks, and a seek
\* ends inside the resource
SetCurrentTime(a, v) ==
  IF a.readyState = "HAVE_NOTHING"
    THEN [a EXCEPT !.defaultStart = v]
    ELSE [a EXCEPT !.position = Max2(0, Min2(v, a.length))]

\* the metadata arrives: a positive default playback start position is sought
MetadataLoaded(a) ==
  [a EXCEPT !.readyState = "HAVE_METADATA",
            !.position = IF a.defaultStart > 0 THEN Min2(a.defaultStart, a.length)
                         ELSE 0,
            !.defaultStart = 0]

\* x || 0
OrZero(x) == IF x = NaN \/ x = 0 THEN 0 ELSE x

\* isFinite(x)
IsFinite(x) == x # NaN /\ x # Infinity

(***************************************************************************)
(* AudioPlayerService.                                                     *)
(***************************************************************************)
InitialPlaybackState == [isPlaying |-> FALSE, currentTime |-> 0, duration |-> 0]

InitialSessionData ==
  [studentName |-> "", class |-> "", conversationTypeId |-> 0, date |-> "today"]

InitPlayer == [audio |-> EmptyAudio, updateCallback |-> FALSE, intervalId |-> FALSE]

\* the PlayerState updateState() hands to the callback
PlayerTelemetry(a) ==
  [isPlaying |-> ~a.paused,
   currentTime |-> CurrentTime(a),
   duration |-> OrZero(NativeDuration(a))]

\* updateState(): handlePlaybackUpdate stores the state
PlayerUpdateState(p, stored) ==
  IF p.updateCallback THEN PlayerTelemetry(p.audio) ELSE stored

\* the time seek(time) assigns to audio.currentTime
SeekTarget(a, time) == Max2(0, Min2(time, OrZero(NativeDuration(a))))

\* the time rewind(seconds) assigns
RewindTarget(a, seconds) == Max2(0, CurrentTime(a) - seconds)

\* the time forward(seconds) assigns
ForwardTarget(a, seconds) == Min2(OrZero(NativeDuration(a)), CurrentTime(a) + seconds)

\* loads (history): the load and loadUrl calls so far, 2 standing for two or more
InitMedia == [loaded |-> 0, intervals |-> 0, loads |-> 0]

\* reset() without the clearInterval
PlayerResetKeepTimer(p, m) ==
  [player |-> [p EXCEPT !.audio = EmptyAudio],
   media |-> [m EXCEPT !.loaded = IF p.audio.hasSrc THEN @ - 1 ELSE @]]

\* reset(): the element is paused and gives up its resource (src = ''), a
\* new element without a source replaces it, the interval is cleared
PlayerReset(p, m) ==
  [player |-> [p EXCEPT !.audio = EmptyAudio, !.intervalId = FALSE],
   media |-> [m EXCEPT !.loaded = IF p.audio.hasSrc THEN @ - 1 ELSE @,
                       !.intervals = IF p.intervalId THEN @ - 1 ELSE @]]

\* load(audioBlob, onUpdate), loadUrl(url, onUpdate)
Load(len, isBounded) ==
  LET r == PlayerReset(player, media) IN
  /\ player' = [r.player EXCEPT !.audio = NewAudio(len, isBounded),
                                !.updateCallback = TRUE,
                                !.intervalId = TRUE]
  /\ media' = [loaded |-> r.media.loaded + 1, intervals |-> r.media.intervals + 1,
               loads |-> Min2(media.loads + 1, 2)]
  /\ playbackState' = PlayerUpdateState(player', playbackState)
  /\ UNCHANGED <<view, lastSeek, storeVars, queueVars, captureVars, sessionVars, service, editor>>

\* onloadedmetadata
PlayerLoadedMetadata ==
  /\ player.audio.hasSrc
  /\ player.audio.readyState = "HAVE_NOTHING"
  /\ player' = [player EXCEPT !.audio = MetadataLoaded(@)]
  /\ playbackState' = PlayerUpdateState(player', playbackState)
  /\ UNCHANGED <<view, lastSeek, storeVars, queueVars, captureVars, media, sessionVars, service, editor>>

PlayerSeek(time) ==
  /\ player' = [player EXCEPT !.audio = SetCurrentTime(@, SeekTarget(@, time))]
  /\ playbackState' = PlayerUpdateState(player', playbackState)
  /\ lastSeek' = [engine |-> "service", op |-> "seek", arg |-> time]
  /\ UNCHANGED <<view, storeVars, queueVars, captureVars, media, sessionVars, service, editor>>

PlayerRewind(seconds) ==
  /\ RewindTarget(player.audio, seconds) <= MaxLength + DefaultStep
  /\ player' = [player EXCEPT !.audio = SetCurrentTime(@, RewindTarget(@, seconds))]
  /\ playbackState' = PlayerUpdateState(player', playbackState)
  /\ lastSeek' = [engine |-> "service", op |-> "rewind", arg |-> seconds]
  /\ UNCHANGED <<view, storeVars, queueVars, captureVars, media, sessionVars, service, editor>>

PlayerForward(seconds) ==
  /\ ForwardTarget(player.audio, seconds) >= 0 - (MaxLength + DefaultStep)
  /\ player' = [player EXCEPT !.audio = SetCurrentTime(@, ForwardTarget(@, seconds))]
  /\ playbackState' = PlayerUpdateState(player', playbackState)
  /\ lastSeek' = [engine |-> "service", op |-> "forward", arg |-> seconds]
  /\ UNCHANGED <<view, storeVars, queueVars, captureVars, media, sessionVars, service, editor>>

\* play(): playback starts once the resource is loaded
PlayerPlay ==
  /\ player.audio.readyState # "HAVE_NOTHING"
  /\ player' = [player EXCEPT !.audio.paused = FALSE]
  /\ playbackState' = PlayerUpdateState(player', playbackState)
  /\ UNCHANGED <<view, lastSeek, storeVars, queueVars, captureVars, media, sessionVars, service, editor>>

PlayerPause ==
  /\ player' = [player EXCEPT !.audio.paused = TRUE]
  /\ playbackState' = PlayerUpdateState(player', playbackState)
  /\ UNCHANGED <<view, lastSeek, storeVars, queueVars, captureVars, media, sessionVars, service, editor>>

\* stop() without the assignment to currentTime
PlayerStopPauseOnly ==
  /\ player' = [player EXCEPT !.audio.paused = TRUE]
  /\ playbackState' = PlayerUpdateState(player', playbackState)
  /\ lastSeek' = [engine |-> "service", op |-> "stop", arg |-> 0]
  /\ UNCHANGED <<view, storeVars, queueVars, captureVars, media, sessionVars, service, editor>>

\* stop()
PlayerStop ==
  /\ player' = [player EXCEPT !.audio = SetCurrentTime([@ EXCEPT !.paused = TRUE], 0)]
  /\ playbackState' = PlayerUpdateState(player', playbackState)
  /\ lastSeek' = [engine |-> "service", op |-> "stop", arg |-> 0]
  /\ UNCHANGED <<view, storeVars, queueVars, captureVars, media, sessionVars, service, editor>>

\* a second of the resource is played
PlayerAdvance ==
  /\ ~player.audio.paused
  /\ player.audio.position < player.audio.length
  /\ player' = [player EXCEPT !.audio.position = @ + 1]
  /\ UNCHANGED <<playbackState, view, lastSeek, storeVars, queueVars, captureVars, media, sessionVars, service, editor>>

\* playback reaches the end of the resource: onended
PlayerEnded ==
  /\ ~player.audio.paused
  /\ player.audio.position = player.audio.length
  /\ player' = [player EXCEPT !.audio.paused = TRUE]
  /\ playbackState' = PlayerUpdateState(player', playbackState)
  /\ UNCHANGED <<view, lastSeek, storeVars, queueVars, captureVars, media, sessionVars, service, editor>>

\* the interval of load() fires
PlayerIntervalFires ==
  /\ player.intervalId
  /\ playbackState' = PlayerUpdateState(player, playbackState)
  /\ UNCHANGED <<player, view, lastSeek, storeVars, queueVars, captureVars, media, sessionVars, service, editor>>

(***************************************************************************)
(* The AudioPlayer component: its own audio element, the listeners it      *)
(* binds and its local state.                                               *)
(***************************************************************************)
\* Content-Length of the HEAD response; 0: the header is missing
ContentLengths == {0, 4 * BytesPerSecond}

InitView == [audio |-> EmptyAudio, duration |-> 0, isLoading |-> TRUE,
             listening |-> FALSE, estimate |-> "none", seeked |-> FALSE]

\* isFinite(audioEl.duration) ? audioEl.duration : 0
ValidDuration(a) == IF IsFinite(NativeDuration(a)) THEN NativeDuration(a) ELSE 0

\* updatePlaybackState(playing, time, audioDuration)
UpdatePlaybackState(playing, time, audioDuration) ==
  [isPlaying |-> playing, currentTime |-> time, duration |-> audioDuration]

\* the timeupdate listener
TimeUpdateListener(v) ==
  UpdatePlaybackState(~v.audio.paused, CurrentTime(v.audio), ValidDuration(v.audio))

\* fileSizeInBytes / (128 * 1024 / 8)
EstimatedDuration(fileSizeInBytes) == fileSizeInBytes \div BytesPerSecond

\* the transport controls are rendered and enabled
Controls(v) == ~v.isLoading /\ v.duration # 0

\* the effect that loads the audio of the selected conversation
SelectConversation(len, isBounded) ==
  /\ view' = [view EXCEPT !.audio = NewAudio(len, isBounded), !.duration = 0,
                          !.isLoading = TRUE, !.listening = TRUE,
                          !.estimate = IF @ = "pending" THEN @ ELSE "none",
                          !.seeked = FALSE]
  /\ UNCHANGED <<playbackState, player, lastSeek, storeVars, queueVars, captureVars, media, sessionVars, service, editor>>

\* the loadedmetadata listener
ViewLoadedMetadata ==
  /\ view.audio.hasSrc
  /\ view.audio.readyState = "HAVE_NOTHING"
  /\ LET a == MetadataLoaded(view.audio)
     IN /\ view' = [view EXCEPT !.audio = a, !.duration = ValidDuration(a),
                                !.isLoading = IF ValidDuration(a) > 0 THEN FALSE ELSE @]
        /\ playbackState' = UpdatePlaybackState(FALSE, 0, ValidDuration(a))
  /\ UNCHANGED <<player, lastSeek, storeVars, queueVars, captureVars, media, sessionVars, service, editor>>

\* the loadeddata listener (once)
ViewLoadedData ==
  /\ view.listening
  /\ view.audio.readyState = "HAVE_METADATA"
  /\ view' = IF ~IsFinite(NativeDuration(view.audio)) \/ NativeDuration(view.audio) = 0
               THEN [view EXCEPT !.listening = FALSE, !.estimate = "pending"]
               ELSE [view EXCEPT !.listening = FALSE, !.isLoading = FALSE]
  /\ UNCHANGED <<playbackState, player, lastSeek, storeVars, queueVars, captureVars, media, sessionVars, service, editor>>

\* estimateDurationFromFileSize: the HEAD response arrives
EstimateArrives(contentLength) ==
  /\ view.estimate = "pending"
  /\ IF EstimatedDuration(contentLength) > 0
       THEN /\ view' = [view EXCEPT !.duration = EstimatedDuration(contentLength),
                                    !.isLoading = FALSE, !.estimate = "supplied"]
            /\ playbackState' =
                 UpdatePlaybackState(FALSE, 0, EstimatedDuration(contentLength))
       ELSE /\ view' = [view EXCEPT !.isLoading = FALSE, !.estimate = "none"]
            /\ UNCHANGED playbackState
  /\ UNCHANGED <<player, lastSeek, storeVars, queueVars, captureVars, media, sessionVars, service, editor>>

\* a timeupdate event: during playback, and after a seek
ViewTimeUpdate ==
  /\ ~view.audio.paused \/ view.seeked
  /\ playbackState' = TimeUpdateListener(view)
  /\ view' = [view EXCEPT !.seeked = FALSE]
  /\ UNCHANGED <<player, lastSeek, storeVars, queueVars, captureVars, media, sessionVars, service, editor>>

HandlePlayPause ==
  /\ Controls(view)
  /\ view.audio.readyState # "HAVE_NOTHING"
  /\ view' = [view EXCEPT !.audio.paused = ~@]
  /\ UNCHANGED <<playbackState, player, lastSeek, storeVars, queueVars, captureVars, media, sessionVars, service, editor>>

\* a second of the resource is played
ViewAdvance ==
  /\ ~view.audio.paused
  /\ view.audio.position < view.audio.length
  /\ view' = [view EXCEPT !.audio.position = @ + 1]
  /\ UNCHANGED <<playbackState, player, lastSeek, storeVars, queueVars, captureVars, media, sessionVars, service, editor>>

\* the ended listener
ViewEnded ==
  /\ ~view.audio.paused
  /\ view.audio.position = view.audio.length
  /\ view' = [view EXCEPT !.audio.paused = TRUE]
  /\ playbackState' = UpdatePlaybackState(FALSE, 0, ValidDuration(view.audio))
  /\ UNCHANGED <<player, lastSeek, storeVars, queueVars, captureVars, media, sessionVars, service, editor>>

HandleRewind ==
  /\ Controls(view)
  /\ view' = [view EXCEPT !.audio = SetCurrentTime(@, Max2(0, CurrentTime(@) - DefaultStep)),
                          !.seeked = TRUE]
  /\ lastSeek' = [engine |-> "component", op |-> "rewind", arg |-> DefaultStep]
  /\ UNCHANGED <<playbackState, player, storeVars, queueVars, captureVars, media, sessionVars, service, editor>>

HandleForward ==
  /\ Controls(view)
  /\ view' = [view EXCEPT
                !.audio = SetCurrentTime(@, Min2(OrZero(NativeDuration(@)),
                                                 CurrentTime(@) + DefaultStep)),
                !.seeked = TRUE]
  /\ lastSeek' = [engine |-> "component", op |-> "forward", arg |-> DefaultStep]
  /\ UNCHANGED <<playbackState, player, storeVars, queueVars, captureVars, media, sessionVars, service, editor>>

\* the slider: a value between 0 and the duration the component holds
HandleSeek(value) ==
  /\ Controls(view)
  /\ value <= view.duration
  /\ view' = [view EXCEPT !.audio = SetCurrentTime(@, value), !.seeked = TRUE]
  /\ lastSeek' = [engine |-> "component", op |-> "seek", arg |-> value]
  /\ UNCHANGED <<playbackState, player, storeVars, queueVars, captureVars, media, sessionVars, service, editor>>

(***************************************************************************)
(* Specifications.                                                         *)
(***************************************************************************)
Init ==
  /\ transcriptionQueue = <<>>
  /\ evictionTimers = {}
  /\ sinceCompleted = [c \in ConvIds |-> -1]
  /\ savePc = "idle"
  /\ saveConv = 0
  /\ conversationId = 1
  /\ conversations = {}
  /\ transcriptionId = 1
  /\ transcriptions = {}
  /\ calls = <<>>
  /\ enqueues = [c \in ConvIds |-> 0]
  /\ evicted = {}
  /\ isTranscribing = FALSE
  /\ rec = InitRec
  /\ dev = InitDev
  /\ startCalls = <<>>
  /\ recordingState = InitialRecordingState
  /\ now = TelemetryPeriod
  /\ hist = InitHist
  /\ playbackState = InitialPlaybackState
  /\ player = InitPlayer
  /\ view = InitView
  /\ lastSeek = [engine |-> "none", op |-> "none", arg |-> 0]
  /\ media = InitMedia
  /\ currentSessionData = InitialSessionData
  /\ storeCall = [op |-> "none", found |-> FALSE]
  /\ service = [apiKey |-> FALSE, runs |-> <<>>]
  /\ editor = [selectedConversationId |-> 0,
               transcription |-> [c \in ConvIds |-> FALSE],
               stored |-> [c \in ConvIds |-> FALSE],
               fetching |-> FALSE,
               isEditing |-> FALSE,
               seen |-> [id |-> 0, transcription |-> FALSE],
               intervalId |-> FALSE,
               refetch |-> "none"]

\* The transcription queue: saving recordings, their background transcription,
\* the remove button and the auto-removal timers.
Next ==
  \/ \E b \in BOOLEAN, n \in Names, ok \in BOOLEAN : SaveSubmit(b, n, ok)
  \/ SaveEnqueue
  \/ SaveDispatch
  \/ \E i \in DOMAIN calls, f \in FileOutcomes : ServerReceive(i, f)
  \/ \E i \in DOMAIN calls, o \in ServiceOutcomes : ExternalReturns(i, o)
  \/ \E i \in DOMAIN calls : NetworkFails(i)
  \/ \E i \in DOMAIN calls :
       \E r \in ApiRequestResults(calls[i]) : ClientResponse(i, r)
  \/ \E id \in ConvIds : ManualRemove(id)
  \/ \E t \in evictionTimers : EvictionFires(t)
  \/ Tick

Spec == Init /\ [][Next]_vars

\* Time passes, a running handler block runs to its end, and timers that are
\* due fire.
FairSpec ==
  /\ Spec
  /\ WF_vars(Tick)
  /\ WF_vars(SaveDispatch)
  /\ \A id \in ConvIds :
       WF_vars(\E t \in evictionTimers : t.id = id /\ EvictionFires(t))

\* FairSpec, and every dispatched call ends: the request is answered (or the
\* network fails) and the browser runs the callback of the answer.
FairCallsSpec ==
  /\ FairSpec
  /\ WF_vars(\E i \in DOMAIN calls :
               \/ \E f \in FileOutcomes : ServerReceive(i, f)
               \/ \E o \in ServiceOutcomes : ExternalReturns(i, o)
               \/ NetworkFails(i)
               \/ \E r \in ApiRequestResults(calls[i]) : ClientResponse(i, r))

\* The queue together with the Generate Transcript button of TranscriptEditor.
EditorNext ==
  \/ Next
  \/ \E c \in ConvIds : HandleGenerateTranscript(c)
  \/ \E i \in DOMAIN calls : GenerateTranscriptSettled(i)

SpecEditor == Init /\ [][EditorNext]_vars

\* POST /api/conversations answered with a new row
PostConversation ==
  /\ conversationId <= MaxConv
  /\ conversations' = CreateConversation(conversations, conversationId)
  /\ conversationId' = conversationId + 1
  /\ UNCHANGED <<transcriptionQueue, evictionTimers, sinceCompleted, savePc,
                 saveConv, transcriptionId, transcriptions, calls, enqueues,
                 evicted, isTranscribing, captureVars, playVars, sessionVars,
                 service, editor>>

\* POST /api/conversations/:id/transcribe sent for any id
PostTranscribe(c) ==
  /\ Len(calls) < MaxRuns
  /\ calls' = DispatchTranscribe(calls, c, "direct")
  /\ UNCHANGED <<transcriptionQueue, evictionTimers, sinceCompleted, savePc,
                 saveConv, conversationId, conversations, transcriptionId,
                 transcriptions, enqueues, evicted, isTranscribing, captureVars,
                 playVars, sessionVars, service, editor>>

\* DELETE /api/conversations/:id (404 for an unknown id) reaching
\* MemStorage.deleteConversation: the transcriptions of the conversation go
\* with it
DeleteConversation(id) ==
  /\ GetConversation(id) # {}
  /\ transcriptions' = transcriptions \ GetTranscription(transcriptions, id)
  /\ conversations' = conversations \ GetConversation(id)
  /\ UNCHANGED <<transcriptionQueue, evictionTimers, sinceCompleted, savePc,
                 saveConv, conversationId, transcriptionId, calls, enqueues,
                 evicted, isTranscribing, captureVars, playVars, sessionVars,
                 service, editor>>

\* The routes alone, requested by any client in any order.
SpecServer ==
  Init /\ [][\/ PostConversation
             \/ \E c \in ConvIds : PostTranscribe(c)
             \/ \E id \in ConvIds : DeleteConversation(id)
             \/ \E i \in DOMAIN calls, f \in FileOutcomes : ServerReceive(i, f)
             \/ \E i \in DOMAIN calls, o \in ServiceOutcomes :
                  ExternalReturns(i, o)]_vars

\* The server process is restarted while it handles no request and no save is
\* under way: storage is a new MemStorage(), its rows are gone and its id
\* counters start at 1 again.
\* The browser tab, with its queue and its timers, lives on.
ServerRestart ==
  /\ savePc = "idle"
  /\ \A i \in DOMAIN calls : calls[i].phase \in {"responded", "done"}
  /\ \A c \in ConvIds : enqueues[c] < MaxQueue
  /\ conversations # {}
  /\ conversationId <= MaxConv
  /\ conversationId' = 1
  /\ conversations' = {}
  /\ transcriptionId' = 1
  /\ transcriptions' = {}
  /\ UNCHANGED <<transcriptionQueue, evictionTimers, sinceCompleted, savePc,
                 saveConv, calls, enqueues, evicted, isTranscribing, captureVars,
                 playVars, sessionVars, service, editor>>

\* The queue with a server that may be restarted.
SpecRestart == Init /\ [][Next \/ ServerRestart]_vars

\* The store alone, its three queue operations called with any arguments.
\* storeCall records the operation.
StoreUpdates ==
  {[status |-> "processing"], [status |-> "completed"],
   [status |-> "failed", error |-> "Network error"]}

StoreAdd(id, path) ==
  /\ Len(transcriptionQueue) < MaxQueue
  /\ transcriptionQueue' =
       AddToTranscriptionQueue(transcriptionQueue,
                               [conversationId |-> id, audioPath |-> path])
  /\ storeCall' = [op |-> "addToTranscriptionQueue", found |-> FALSE]
  /\ UNCHANGED <<queueVars, captureVars, playVars, currentSessionData, service, editor>>

StoreUpdate(id, update) ==
  /\ transcriptionQueue' = UpdateTranscriptionQueueItem(transcriptionQueue, id, update)
  /\ storeCall' = [op |-> "updateTranscriptionQueueItem",
                   found |-> /\ transcriptionQueue # <<>>
                             /\ JobsOf(transcriptionQueue, id) = {}]
  /\ UNCHANGED <<queueVars, captureVars, playVars, currentSessionData, service, editor>>

StoreRemove(id) ==
  /\ transcriptionQueue' = RemoveFromTranscriptionQueue(transcriptionQueue, id)
  /\ storeCall' = [op |-> "removeFromTranscriptionQueue",
                   found |-> /\ HasStatus(id, "processing")
                             /\ \E i \in DOMAIN transcriptionQueue :
                                  transcriptionQueue[i].conversationId # id]
  /\ UNCHANGED <<queueVars, captureVars, playVars, currentSessionData, service, editor>>

StoreNext ==
  \/ \E id \in ConvIds, p \in Paths : StoreAdd(id, p)
  \/ \E id \in ConvIds, u \in StoreUpdates : StoreUpdate(id, u)
  \/ \E id \in ConvIds : StoreRemove(id)

SpecStore == Init /\ [][StoreNext]_vars

\* server/lib/openai.ts, transcribeAudio called directly.  An error is the
\* sequence of the parts its message is put together from.
KeyNotFound ==
  <<"OpenAI API key not found. Please set your API key in the application settings or OPENAI_API_KEY environment variable.">>

\* the catch block of transcribeAudio, for a caught Error with message e
TranscribeCatch(e) ==
  IF e = <<"MISSING_API_KEY">> THEN KeyNotFound
  ELSE <<"Failed to transcribe audio: ">> \o e

\* PUT /preferences stores or clears the key (no key in the environment)
SavePreferences(key) ==
  /\ service' = [service EXCEPT !.apiKey = key]
  /\ UNCHANGED <<storeVars, queueVars, captureVars, playVars, sessionVars, editor>>

\* transcribeAudio(audioBuffer) up to the await inside hasOpenAIKey
TranscribeAudio ==
  /\ Len(service.runs) < MaxRuns
  /\ service' = [service EXCEPT !.runs =
                   Append(@, [pc |-> "hasOpenAIKey", hadKey |-> FALSE,
                              result |-> <<>>])]
  /\ UNCHANGED <<storeVars, queueVars, captureVars, playVars, sessionVars, editor>>

\* hasOpenAIKey() returns; without a key the Error thrown in the try block
\* is caught by the catch block of transcribeAudio
HasOpenAIKey(i) ==
  /\ service.runs[i].pc = "hasOpenAIKey"
  /\ service' = [service EXCEPT !.runs[i] =
                   IF service.apiKey
                     THEN [@ EXCEPT !.pc = "getOpenAIClient", !.hadKey = TRUE]
                     ELSE [@ EXCEPT !.pc = "thrown",
                                    !.result = TranscribeCatch(KeyNotFound)]]
  /\ UNCHANGED <<storeVars, queueVars, captureVars, playVars, sessionVars, editor>>

\* getOpenAIClient() reads the preferences again
GetOpenAIClient(i) ==
  /\ service.runs[i].pc = "getOpenAIClient"
  /\ service' = [service EXCEPT !.runs[i] =
                   IF service.apiKey
                     THEN [@ EXCEPT !.pc = "create"]
                     ELSE [@ EXCEPT !.pc = "thrown",
                                    !.result = TranscribeCatch(<<"MISSING_API_KEY">>)]]
  /\ UNCHANGED <<storeVars, queueVars, captureVars, playVars, sessionVars, editor>>

\* openai.audio.transcriptions.create(...) settles: the connection fails or
\* a text (an empty one included) comes back
TranscriptionsCreate(i, outcome) ==
  /\ service.runs[i].pc = "create"
  /\ service' = [service EXCEPT !.runs[i] =
                   IF outcome = "network"
                     THEN [@ EXCEPT !.pc = "thrown",
                                    !.result = TranscribeCatch(<<"Connection error.">>)]
                     ELSE [@ EXCEPT !.pc = "returned", !.result = <<outcome>>]]
  /\ UNCHANGED <<storeVars, queueVars, captureVars, playVars, sessionVars, editor>>

ServiceNext ==
  \/ \E k \in BOOLEAN : SavePreferences(k)
  \/ TranscribeAudio
  \/ \E i \in DOMAIN service.runs : HasOpenAIKey(i)
  \/ \E i \in DOMAIN service.runs : GetOpenAIClient(i)
  \/ \E i \in DOMAIN service.runs, o \in {"network", "", "text"} :
       TranscriptionsCreate(i, o)

SpecService == Init /\ [][ServiceNext]_vars

\* TranscriptEditor and its 5 s poll.  The component reads the selected
\* conversation with useConversationsStore.getState() while it renders; it
\* is not subscribed to that store, so it sees a change of it at its next
\* render only.
\* a render of TranscriptEditor and the polling effect that follows it
EditorRender(e) ==
  LET id == e.selectedConversationId
      transcription == id # 0 /\ e.transcription[id]
  IN [e EXCEPT !.seen = [id |-> id, transcription |-> transcription],
               !.intervalId = id # 0 /\ ~transcription /\ ~e.isEditing]

\* ConversationList.handleSelectConversation(id): setCurrentConversation
\* changes the session store, which TranscriptEditor is subscribed to
HandleSelectConversation(id) ==
  /\ editor' = EditorRender([editor EXCEPT !.selectedConversationId = id,
                                           !.refetch = "none"])
  /\ UNCHANGED <<storeVars, queueVars, captureVars, playVars, sessionVars, service>>

\* the server stores a transcription for conversation id
TranscriptionStored(id) ==
  /\ ~editor.stored[id]
  /\ editor' = [editor EXCEPT !.stored[id] = TRUE]
  /\ UNCHANGED <<storeVars, queueVars, captureVars, playVars, sessionVars, service>>

\* queryClient.invalidateQueries({ queryKey: ['/api/conversations'] }) by
\* another component: the list is fetched again
InvalidateQueries ==
  /\ ~editor.fetching
  /\ editor' = [editor EXCEPT !.fetching = TRUE]
  /\ UNCHANGED <<storeVars, queueVars, captureVars, playVars, sessionVars, service>>

\* the list arrives: the effect of ConversationList calls setConversations
SetConversations ==
  /\ editor.fetching
  /\ editor' = [editor EXCEPT !.fetching = FALSE, !.transcription = editor.stored]
  /\ UNCHANGED <<storeVars, queueVars, captureVars, playVars, sessionVars, service>>

\* handleEditTranscript, and the Cancel button: setIsEditing
SetIsEditing(b) ==
  /\ editor.isEditing # b
  /\ editor' = EditorRender([editor EXCEPT !.isEditing = b])
  /\ UNCHANGED <<storeVars, queueVars, captureVars, playVars, sessionVars, service>>

\* the interval fires: refreshTranscription() of the render that set it.
\* refetch (history) tells whether the store already held the transcription.
RefreshTranscription ==
  /\ editor.intervalId
  /\ editor.seen.id # 0 /\ ~editor.isEditing
  /\ editor' = EditorRender(
       [editor EXCEPT !.fetching = TRUE,
                      !.refetch =
          IF editor.transcription[editor.selectedConversationId]
            THEN "transcribed" ELSE "missing"])
  /\ UNCHANGED <<storeVars, queueVars, captureVars, playVars, sessionVars, service>>

\* any other change of the session store or of the component's state
EditorRerender ==
  /\ editor' = EditorRender(editor)
  /\ UNCHANGED <<storeVars, queueVars, captureVars, playVars, sessionVars, service>>

PollNext ==
  \/ \E id \in ConvIds : HandleSelectConversation(id)
  \/ \E id \in ConvIds : TranscriptionStored(id)
  \/ InvalidateQueries
  \/ SetConversations
  \/ \E b \in BOOLEAN : SetIsEditing(b)
  \/ RefreshTranscription
  \/ EditorRerender

SpecPoll == Init /\ [][PollNext]_vars

\* The session fields of the store.  conversationTypeId 0 stands for null
\* (the ids of conversation types start at 1); the date is the day the page
\* was loaded.

\* updateSessionData(data)
UpdateSessionData(data) ==
  /\ currentSessionData' = Merge(currentSessionData, data)
  /\ storeCall' = [op |-> "updateSessionData", found |-> FALSE]
  /\ UNCHANGED <<storeVars, queueVars, captureVars, playVars, service, editor>>

\* setRecordingState(state)
SetRecordingState(state) ==
  /\ recordingState' = state
  /\ storeCall' = [op |-> "setRecordingState", found |-> FALSE]
  /\ UNCHANGED <<rec, dev, startCalls, now, hist, storeVars, queueVars, playVars,
                 currentSessionData, service, editor>>

\* setPlaybackState(state)
SetPlaybackState(state) ==
  /\ playbackState' = state
  /\ storeCall' = [op |-> "setPlaybackState", found |-> FALSE]
  /\ UNCHANGED <<player, view, lastSeek, media, storeVars, queueVars, captureVars,
                 currentSessionData, service, editor>>

\* setIsTranscribing(isTranscribing)
SetIsTranscribing(b) ==
  /\ isTranscribing' = b
  /\ storeCall' = [op |-> "setIsTranscribing", found |-> FALSE]
  /\ UNCHANGED <<evictionTimers, sinceCompleted, savePc, saveConv,
                 conversationId, conversations, transcriptionId, transcriptions,
                 calls, enqueues, evicted, storeVars, captureVars, playVars,
                 currentSessionData, service, editor>>

\* every field resetSession() writes differs from its initial value
SessionDirty ==
  /\ currentSessionData.studentName # ""
  /\ currentSessionData.class # ""
  /\ currentSessionData.conversationTypeId # 0
  /\ recordingState # InitialRecordingState
  /\ playbackState # InitialPlaybackState
  /\ isTranscribing

\* resetSession() that also empties the queue
ResetSessionAll ==
  /\ currentSessionData' = InitialSessionData
  /\ recordingState' = InitialRecordingState
  /\ playbackState' = InitialPlaybackState
  /\ isTranscribing' = FALSE
  /\ transcriptionQueue' = <<>>
  /\ storeCall' = [op |-> "resetSession", found |-> SessionDirty]
  /\ UNCHANGED <<evictionTimers, sinceCompleted, savePc, saveConv,
                 conversationId, conversations, transcriptionId, transcriptions,
                 calls, enqueues, evicted, rec, dev, startCalls, now, hist,
                 player, view, lastSeek, media, service, editor>>

\* resetSession() that keeps the recording telemetry
ResetSessionKeepRecording ==
  /\ currentSessionData' = InitialSessionData
  /\ playbackState' = InitialPlaybackState
  /\ isTranscribing' = FALSE
  /\ storeCall' = [op |-> "resetSession", found |-> SessionDirty]
  /\ UNCHANGED <<evictionTimers, sinceCompleted, savePc, saveConv,
                 conversationId, conversations, transcriptionId, transcriptions,
                 calls, enqueues, evicted, rec, dev, startCalls, now, hist,
                 player, view, lastSeek, media, storeVars, recordingState, service, editor>>

\* resetSession(): transcriptSearchQuery and currentConversation, which it
\* also resets, are not part of the model
ResetSession ==
  /\ currentSessionData' = InitialSessionData
  /\ recordingState' = InitialRecordingState
  /\ playbackState' = InitialPlaybackState
  /\ isTranscribing' = FALSE
  /\ storeCall' = [op |-> "resetSession", found |-> SessionDirty]
  /\ UNCHANGED <<evictionTimers, sinceCompleted, savePc, saveConv,
                 conversationId, conversations, transcriptionId, transcriptions,
                 calls, enqueues, evicted, rec, dev, startCalls, now, hist,
                 player, view, lastSeek, media, storeVars, service, editor>>

\* The queue operations of the store and resetSession, in any order.
StoreResetNext ==
  \/ StoreNext
  \/ \E b \in BOOLEAN : SetIsTranscribing(b)
  \/ ResetSession

SpecStoreReset == Init /\ [][StoreResetNext]_vars

\* The session operations of the store, in any order.
SessionNext ==
  \/ \E u \in {[studentName |-> "Ann"], [class |-> "4B"], [conversationTypeId |-> 1],
              [studentName |-> "Ann", class |-> "4B"], [date |-> "2025-01-01"]} :
       UpdateSessionData(u)
  \/ \E r \in {InitialRecordingState,
              [isRecording |-> TRUE, isPaused |-> FALSE,
               duration |-> TelemetryPeriod, audioBlob |-> <<>>],
              [isRecording |-> TRUE, isPaused |-> TRUE,
               duration |-> 2 * TelemetryPeriod, audioBlob |-> <<>>],
              [isRecording |-> FALSE, isPaused |-> FALSE,
               duration |-> 2 * TelemetryPeriod, audioBlob |-> Blob(<<1>>)]} :
       SetRecordingState(r)
  \/ \E q \in {InitialPlaybackState,
              [isPlaying |-> TRUE, currentTime |-> 2, duration |-> 3],
              [isPlaying |-> FALSE, currentTime |-> 3, duration |-> 3]} :
       SetPlaybackState(q)
  \/ \E b \in BOOLEAN : SetIsTranscribing(b)
  \/ ResetSession

SpecSession == Init /\ [][SessionNext]_vars

\* handleStopRecording of the recorder component: audioRecorder.stop(), then
\* audioPlayer.load of the blob in the recordingState of the last render.
\* lastSeek records the load and the number of chunks of the blob it was given.
HandleStopRecording(len, isBounded) ==
  /\ dev' = StopCall(rec, dev)
  /\ hist' = [hist EXCEPT !.lastCall = [op |-> "stop",
                                        found |-> RecorderState(rec, dev)]]
  /\ IF recordingState.audioBlob # <<>>
       THEN LET r == PlayerReset(player, media) IN
            /\ player' = [r.player EXCEPT !.audio = NewAudio(len, isBounded),
                                          !.updateCallback = TRUE,
                                          !.intervalId = TRUE]
            /\ media' = [loaded |-> r.media.loaded + 1,
                         intervals |-> r.media.intervals + 1,
                         loads |-> Min2(media.loads + 1, 2)]
            /\ playbackState' = PlayerUpdateState(player', playbackState)
            /\ lastSeek' = [engine |-> "service", op |-> "load",
                            arg |-> Len(recordingState.audioBlob)]
       ELSE UNCHANGED <<playbackState, player, media, lastSeek>>
  /\ UNCHANGED <<rec, recordingState, startCalls, now, view, storeVars,
                 queueVars, sessionVars, service, editor>>

\* The recorder component: the capture engine behind its buttons, and
\* resetSession() of the store.
SpecRecorder ==
  Init /\ [][\/ StartCall
             \/ \E i \in DOMAIN startCalls : DeviceDenied(i)
             \/ \E i \in DOMAIN startCalls, f \in FailPoints : DeviceGranted(i, f)
             \/ Pause
             \/ Resume
             \/ \E len \in Lengths, b \in BOOLEAN : HandleStopRecording(len, b)
             \/ \E m \in 1..MaxStarts : DataAvailable(m)
             \/ \E m \in dev.stopping, h \in BOOLEAN : RecorderStops(m, h)
             \/ \E t \in dev.intervals : IntervalFires(t)
             \/ ResetSession]_vars

\* The capture engine, its operations called in any order.
CaptureNext ==
  \/ StartCall
  \/ \E i \in DOMAIN startCalls : DeviceDenied(i)
  \/ \E i \in DOMAIN startCalls, f \in FailPoints : DeviceGranted(i, f)
  \/ Pause
  \/ Resume
  \/ Stop
  \/ \E m \in 1..MaxStarts : DataAvailable(m)
  \/ \E m \in dev.stopping, h \in BOOLEAN : RecorderStops(m, h)
  \/ \E t \in dev.intervals : IntervalFires(t)

SpecCapture == Init /\ [][CaptureNext]_vars

\* The capture engine with the clock running.
TimedNext == CaptureNext \/ ClockTick

SpecTimed == Init /\ [][TimedNext]_vars

\* One recording with the clock running: start() is called once.
OneCaptureNext ==
  \/ startCalls = <<>> /\ StartCall
  \/ \E i \in DOMAIN startCalls : DeviceDenied(i)
  \/ \E i \in DOMAIN startCalls, f \in FailPoints : DeviceGranted(i, f)
  \/ Pause
  \/ Resume
  \/ Stop
  \/ \E m \in 1..MaxStarts : DataAvailable(m)
  \/ \E m \in dev.stopping, h \in BOOLEAN : RecorderStops(m, h)
  \/ \E t \in dev.intervals : IntervalFires(t)
  \/ ClockTick

SpecOneCapture == Init /\ [][OneCaptureNext]_vars

\* The playback service, its operations called in any order.
PlayerNext ==
  \/ \E len \in Lengths, b \in BOOLEAN : Load(len, b)
  \/ PlayerLoadedMetadata
  \/ \E t \in SeekTimes : PlayerSeek(t)
  \/ \E n \in Steps : PlayerRewind(n)
  \/ \E n \in Steps : PlayerForward(n)
  \/ PlayerPlay
  \/ PlayerPause
  \/ PlayerStop
  \/ PlayerAdvance
  \/ PlayerEnded
  \/ PlayerIntervalFires

SpecPlayer == Init /\ [][PlayerNext]_vars

\* The AudioPlayer component, its events and handlers in any order.
ViewNext ==
  \/ \E len \in Lengths, b \in BOOLEAN : SelectConversation(len, b)
  \/ ViewLoadedMetadata
  \/ ViewLoadedData
  \/ \E c \in ContentLengths : EstimateArrives(c)
  \/ ViewTimeUpdate
  \/ HandlePlayPause
  \/ ViewAdvance
  \/ ViewEnded
  \/ HandleRewind
  \/ HandleForward
  \/ \E v \in {0, 2, 4} : HandleSeek(v)

SpecView == Init /\ [][ViewNext]_vars

(***************************************************************************)
(* The claims.                                                             *)
(***************************************************************************)

\* C1: after any sequence of addToTranscriptionQueue,
\* updateTranscriptionQueueItem and removeFromTranscriptionQueue calls the
\* queue holds at most one job per conversationId (adding an id that is
\* already queued overwrites its job).
C1_OneJobPerConversation ==
  \A id \in ConvIds : Cardinality(JobsOf(transcriptionQueue, id)) <= 1

C5_EventuallyEvicted ==
  \A id \in ConvIds : HasStatus(id, "completed") ~> ~InQueue(id)

\* every conversation was saved and every job was evicted by a timer
C5_Witness ==
  /\ transcriptionQueue = <<>>
  /\ evicted = ConvIds

\* C6: when the transcription call of a job has failed, the callback that
\* handles it leaves the job failed with a non-empty error and does not touch
\* handleSaveRecording, which has returned or runs on unaffected.
C6_FailureCaptured ==
  [][\A i \in DOMAIN calls :
       (/\ calls[i].origin = "queue"
        /\ calls[i].phase = "responded"
        /\ calls[i].status # 200
        /\ calls'[i].phase = "done"
        /\ InQueue(calls[i].conversationId))
       => /\ InQueue(calls[i].conversationId)'
          /\ JobOf(calls[i].conversationId)'.status = "failed"
          /\ JobOf(calls[i].conversationId)'.error \notin {Undefined, ""}
          /\ UNCHANGED <<savePc, saveConv>>]_vars

\* a failed call has been handled while a later save is under way
C6_Witness ==
  \E i \in DOMAIN calls :
    /\ calls[i].phase = "done"
    /\ calls[i].status = 500
    /\ HasStatus(calls[i].conversationId, "failed")
    /\ savePc = "created"

\* C7: when a job is marked completed, the store holds a transcription of
\* its conversation whose text is the text the service returned for the call
\* of that job.
C7_StoredBeforeCompleted ==
  [][\A i \in DOMAIN calls :
       (/\ calls[i].origin = "queue"
        /\ calls[i].phase = "responded"
        /\ calls'[i].phase = "done"
        /\ HasStatus(calls[i].conversationId, "completed")')
       => \E t \in transcriptions :
            /\ t.conversationId = calls[i].conversationId
            /\ t.text = calls[i].text]_vars

\* C8: the calls the queue has sent for a conversation are as many as its
\* jobs enqueued (one less between addToTranscriptionQueue and the dispatch),
\* and a failed job has no call under way.
C8_OneCallPerEnqueue ==
  \A c \in ConvIds :
    LET sent == {i \in DOMAIN calls :
                   calls[i].origin = "queue" /\ calls[i].conversationId = c}
    IN /\ Cardinality(sent) = IF Busy /\ saveConv = c THEN enqueues[c] - 1
                                                       ELSE enqueues[c]
       /\ HasStatus(c, "failed") => \A i \in sent : calls[i].phase = "done"

\* every conversation was saved, one job failed and stays failed
C8_Witness ==
  /\ conversationId > MaxConv
  /\ \A c \in ConvIds : enqueues[c] = 1
  /\ \E c \in ConvIds : HasStatus(c, "failed")
  /\ \A i \in DOMAIN calls : calls[i].phase = "done"

\* C9: once the stop event of a capture has been handled, the engine has no
\* live stream tracks, no connected nodes and no active telemetry timer.
C9_StopReleasesAll ==
  \A m \in 1..MaxStarts :
    (/\ rec.mediaRecorder = m
     /\ startCalls[m] = "fulfilled"
     /\ dev.recorders[m] = "inactive"
     /\ m \notin dev.stopping)
    => /\ rec.stream \notin dev.live
       /\ rec.graph \notin dev.connected
       /\ rec.intervalId \notin dev.intervals

\* C10: when a start() call rejects, the engine holds no stream, no nodes, no
\* recorder, no timer and no chunks, and what the call had acquired is released.
C10_FailedStartIsClean ==
  [][\A i \in DOMAIN startCalls :
       (startCalls[i] = "pending" /\ startCalls'[i] = "rejected")
       => /\ rec'.stream = 0
          /\ rec'.nodes = {}
          /\ rec'.mediaRecorder = 0
          /\ rec'.intervalId = 0
          /\ rec'.audioChunks = <<>>
          /\ i \notin dev'.live
          /\ i \notin dev'.connected
          /\ i \notin dev'.intervals
          /\ dev'.recorders[i] \in {"none", "inactive"}]_vars

\* a start() call was rejected after its recorder had been created
C10_Witness ==
  \E i \in DOMAIN startCalls :
    /\ startCalls[i] = "rejected"
    /\ dev.recorders[i] = "inactive"
    /\ rec.stream = 0
    /\ rec.mediaRecorder = 0

\* C11: once a start() call that found the engine recording or paused has
\* begun its own capture, the recorder it found is no longer recording or
\* paused, and none of that recorder's chunks is among the chunks of the new
\* capture.
C11_RestartResetsPrior ==
  \A p \in hist.superseded :
    \A i \in DOMAIN startCalls :
      (i > p /\ startCalls[i] = "fulfilled" /\ rec.mediaRecorder = i)
      => /\ dev.recorders[p] \notin {"recording", "paused"}
         /\ \A k \in DOMAIN rec.audioChunks : rec.audioChunks[k] # p

\* C12: when no start() call is waiting for the input device any more, the
\* only stream with live tracks and the only running telemetry timer are the
\* ones the engine holds and can still release.
C12_OneStreamOneTimer ==
  (\A i \in DOMAIN startCalls : startCalls[i] # "pending")
  => /\ dev.live \subseteq {rec.stream}
     /\ dev.intervals \subseteq {rec.intervalId}

\* C13: for a single start() followed by pauses, resumes and a stop, the
\* duration in the telemetry update of the onstop handler differs from the
\* time the recorder spent recording by at most one telemetry period.
C13_DurationIsRecordingTime ==
  [][\A m \in dev.stopping :
       (Len(startCalls) = 1 /\ rec.mediaRecorder = m /\ m \notin dev'.stopping)
       => /\ recordingState'.duration - hist.recorded <= TelemetryPeriod
          /\ hist.recorded - recordingState'.duration <= TelemetryPeriod]_vars

\* C14: the engine only moves Idle -> Recording, Recording -> Paused,
\* Paused -> Recording and Recording or Paused -> Idle; with the recorder
\* unchanged, Recording -> Paused happens only in pause(), Paused -> Recording
\* only in resume() and the move to Idle only in stop(); stop() called in
\* Recording or Paused leaves the engine Idle, and the telemetry of its onstop
\* handler reports isRecording = false and isPaused = false.
C14_EngineTransitions ==
  [][/\ \/ EngineState(rec', dev') = EngineState(rec, dev)
        \/ <<EngineState(rec, dev), EngineState(rec', dev')>> \in
             {<<"Idle", "Recording">>, <<"Recording", "Paused">>,
              <<"Paused", "Recording">>, <<"Recording", "Idle">>,
              <<"Paused", "Idle">>}
     /\ (rec'.mediaRecorder = rec.mediaRecorder
         /\ EngineState(rec', dev') # EngineState(rec, dev))
        => CASE EngineState(rec', dev') = "Paused" -> Pause
             [] EngineState(rec', dev') = "Recording" -> Resume
             [] OTHER -> Stop
     /\ (Stop /\ EngineState(rec, dev) \in {"Recording", "Paused"})
        => EngineState(rec', dev') = "Idle"
     /\ \A m \in dev.stopping :
          (rec.mediaRecorder = m /\ m \notin dev'.stopping)
          => ~recordingState'.isRecording /\ ~recordingState'.isPaused]_vars

\* stop() was called on a paused capture and its onstop handler has run
C14_Witness ==
  /\ hist.lastCall = [op |-> "stop", found |-> "paused"]
  /\ rec.mediaRecorder # 0
  /\ dev.recorders[rec.mediaRecorder] = "inactive"
  /\ rec.mediaRecorder \notin dev.stopping
  /\ ~recordingState.isRecording

\* C15: a pause() call that finds the recorder not recording, and a resume()
\* call that finds it not paused, change neither the fields of the engine
\* (recorder, startTime, pausedTime, chunks, nodes) nor the browser's recorders
\* and graphs, and deliver no telemetry to the store.
C15_PauseResumeNoOp ==
  [][(\/ Pause /\ RecorderState(rec, dev) # "recording"
      \/ Resume /\ RecorderState(rec, dev) # "paused")
     => UNCHANGED <<rec, dev, recordingState>>]_vars

\* resume() was called on a capture that was recording and had delivered a
\* chunk the store had not been told about yet
C15_Witness ==
  /\ hist.lastCall = [op |-> "resume", found |-> "recording"]
  /\ RecorderState(rec, dev) = "recording"
  /\ rec.audioChunks # <<>>
  /\ recordingState.audioBlob = <<>>

\* C16: getAudioBlob() returns null exactly when no chunk has been delivered
\* since the most recent start() call, and otherwise the blob of all the
\* chunks delivered since that call, in the order of their delivery.
C16_BlobIsCaptured ==
  GetAudioBlob(rec) = IF hist.captured = <<>> THEN Null ELSE Blob(hist.captured)

\* C17: after every seek(t), rewind(n) and forward(n) of the playback
\* service, whatever the argument, the currentTime it reports lies between 0
\* and the duration it reports.
C17_CurrentTimeInRange ==
  [][(/\ player.audio.hasSrc
      /\ \/ \E t \in SeekTimes : PlayerSeek(t)
         \/ \E n \in Steps : PlayerRewind(n)
         \/ \E n \in Steps : PlayerForward(n))
     => /\ 0 <= CurrentTime(player'.audio)
        /\ CurrentTime(player'.audio) <= OrZero(NativeDuration(player'.audio))]_vars

\* C18: while the playback service reports duration 0 for the loaded resource
\* (duration unknown), seek(t) with t >= 0 leaves currentTime at t and
\* forward(n) with n >= 0 leaves it at the former currentTime plus n.
C18_UnknownDurationLowerClampOnly ==
  [][(player.audio.hasSrc /\ PlayerTelemetry(player.audio).duration = 0)
     => /\ \A t \in SeekTimes :
             (t >= 0 /\ PlayerSeek(t)) => CurrentTime(player'.audio) = t
        /\ \A n \in Steps :
             (n >= 0 /\ PlayerForward(n))
             => CurrentTime(player'.audio) = CurrentTime(player.audio) + n]_vars

\* C19: whenever the native duration of the resource the playback service has
\* loaded is NaN or Infinity, the PlaybackState it has reported has duration 0.
C19_NonFiniteDurationIsZero ==
  (player.updateCallback /\ ~IsFinite(NativeDuration(player.audio)))
  => playbackState.duration = 0

\* C20: for a resource whose native duration is not finite, the published
\* PlaybackState has duration 0 until the size-based estimate is supplied, and
\* once it has been supplied the published duration is the estimate.
C20_EstimateStays ==
  (view.audio.readyState # "HAVE_NOTHING" /\ ~IsFinite(NativeDuration(view.audio)))
  => playbackState.duration = IF view.estimate = "supplied" THEN view.duration ELSE 0

C22_StopRewinds ==
  [][PlayerStop =>
       /\ player'.audio.paused
       /\ CurrentTime(player'.audio) = 0
       /\ player.updateCallback =>
            /\ ~playbackState'.isPlaying
            /\ playbackState'.currentTime = 0]_vars

C22_Witness ==
  /\ lastSeek = [engine |-> "service", op |-> "stop", arg |-> 0]
  /\ player.audio.readyState = "HAVE_METADATA"
  /\ player.audio.position = 0
  /\ playbackState = [isPlaying |-> FALSE, currentTime |-> 0,
                      duration |-> player.audio.length]

\* C23: resetSession() leaves the transcription queue as it is: the same
\* jobs in the same order, each with its status and error, whatever their
\* states.
C23_ResetKeepsQueue ==
  [][storeCall'.op = "resetSession" => transcriptionQueue' = transcriptionQueue]_vars

C23_Witness ==
  /\ storeCall.op = "resetSession"
  /\ Len(transcriptionQueue) = MaxQueue
  /\ \E i \in DOMAIN transcriptionQueue : transcriptionQueue[i].status = "processing"
  /\ \E i \in DOMAIN transcriptionQueue : transcriptionQueue[i].status = "failed"

\* C24: right after resetSession() the session fields are the initial ones:
\* studentName and class empty, conversationTypeId null, recordingState and
\* playbackState at their initial values, whatever they were before.
C24_ResetClearsSession ==
  [][storeCall'.op = "resetSession" =>
       /\ currentSessionData'.studentName = ""
       /\ currentSessionData'.class = ""
       /\ currentSessionData'.conversationTypeId = 0
       /\ recordingState' = [isRecording |-> FALSE, isPaused |-> FALSE,
                             duration |-> 0, audioBlob |-> <<>>]
       /\ playbackState' = [isPlaying |-> FALSE, currentTime |-> 0,
                            duration |-> 0]]_vars

\* a reset has just cleared a session whose fields were all set
C24_Witness ==
  /\ storeCall = [op |-> "resetSession", found |-> TRUE]
  /\ currentSessionData = InitialSessionData
  /\ recordingState = InitialRecordingState
  /\ playbackState = InitialPlaybackState
  /\ ~isTranscribing

\* C25: a transcribeAudio call that finds no API key configured fails with
\* the missing-key error itself, not with an error of the
\* "Failed to transcribe audio: ..." kind that a failed connection produces.
C25_MissingKeyIsDistinct ==
  \A i \in DOMAIN service.runs :
    (service.runs[i].pc = "thrown" /\ ~service.runs[i].hadKey)
      => service.runs[i].result = KeyNotFound

\* C26: removeFromTranscriptionQueue(id) removes the job whatever its status:
\* afterwards no job of the queue has that id, and the jobs with other ids
\* are the same as before, in the same order.
C26_RemoveIsUnconditional ==
  [][\A id \in ConvIds :
       StoreRemove(id) =>
         LET q == transcriptionQueue
             kept(i) == Cardinality({j \in 1..i : q[j].conversationId # id})
         IN /\ \A k \in DOMAIN transcriptionQueue' :
                 transcriptionQueue'[k].conversationId # id
            /\ Len(transcriptionQueue') = kept(Len(q))
            /\ \A i \in DOMAIN q :
                 q[i].conversationId # id => transcriptionQueue'[kept(i)] = q[i]]_vars

C26_Witness ==
  /\ storeCall = [op |-> "removeFromTranscriptionQueue", found |-> TRUE]
  /\ transcriptionQueue # <<>>
  /\ \A i \in DOMAIN transcriptionQueue :
       transcriptionQueue[i].conversationId = transcriptionQueue[1].conversationId

\* C27: updateTranscriptionQueueItem(id, update) changes the fields of the
\* update in the jobs with that id and nothing else: the queue keeps its
\* length and its ids, jobs with another id stay as they are, and with no
\* job of that id the queue is unchanged (a removed job does not come back).
C27_UpdateMergesOnly ==
  [][\A id \in ConvIds, u \in StoreUpdates :
       StoreUpdate(id, u) =>
         /\ Len(transcriptionQueue') = Len(transcriptionQueue)
         /\ \A i \in DOMAIN transcriptionQueue :
              LET old == transcriptionQueue[i]
                  new == transcriptionQueue'[i]
              IN /\ old.conversationId # id => new = old
                 /\ old.conversationId = id =>
                      /\ new.conversationId = id
                      /\ new.audioPath = old.audioPath
                      /\ new.status = u.status
                      /\ new.error = IF "error" \in DOMAIN u THEN u.error
                                     ELSE old.error
         /\ JobsOf(transcriptionQueue, id) = {}
              => transcriptionQueue' = transcriptionQueue]_vars

C27_Witness ==
  /\ storeCall = [op |-> "updateTranscriptionQueueItem", found |-> TRUE]
  /\ \E i \in DOMAIN transcriptionQueue : transcriptionQueue[i].status = "processing"

\* C28: the poll of TranscriptEditor is active only while a conversation is
\* selected that has no transcription and the user is not editing; it is
\* never active once the selected conversation has a transcription or
\* editing has begun.
C28_PollOnlyWhileNeeded ==
  editor.intervalId =>
    /\ editor.selectedConversationId # 0
    /\ ~editor.transcription[editor.selectedConversationId]
    /\ ~editor.isEditing

\* C29: enqueuing never waits for a job that is processing: once the
\* conversation is created, handleSaveRecording can add its job and mark it
\* processing at once, however many jobs of the queue are processing, so
\* several jobs are processing at the same time.
C29_EnqueueNeverWaits ==
  /\ savePc = "created" => ENABLED SaveEnqueue
  /\ savePc = "added" => ENABLED SaveDispatch
  /\ \A id \in ConvIds :
       (saveConv # id /\ HasStatus(id, "processing") /\ savePc = "added")
         => HasStatus(saveConv, "pending")

\* two jobs are processing and both requests are still with the server
C29_Witness ==
  /\ Len(transcriptionQueue) = 2
  /\ \A i \in DOMAIN transcriptionQueue : transcriptionQueue[i].status = "processing"
  /\ Len(calls) = 2
  /\ \A i \in DOMAIN calls : calls[i].phase = "transcribing"

\* C30: within one capture, from the first update of start() to the last
\* one after stop(), every duration handed to onUpdate is at least the one
\* handed over before it, also across pause() and resume().  A capture is
\* the time the service holds one recorder.
C30_DurationNonDecreasing ==
  [][(rec.mediaRecorder # 0 /\ rec'.mediaRecorder = rec.mediaRecorder)
       => recordingState'.duration >= recordingState.duration]_vars

\* a capture that was paused, resumed and stopped has delivered its last
\* update, with a duration above zero
C30_Witness ==
  /\ hist.lastCall = [op |-> "stop", found |-> "recording"]
  /\ rec.mediaRecorder # 0
  /\ rec.mediaRecorder \notin dev.stopping
  /\ rec.pausedTime > 0
  /\ rec.startTime > TelemetryPeriod
  /\ recordingState.duration > rec.pausedTime
  /\ ~recordingState.isRecording

\* C31: when every dispatched call ends, a job that is in the queue is
\* eventually completed or failed, unless it is removed first; no job stays
\* pending or processing forever.
C31_JobsSettle ==
  \A id \in ConvIds :
    InQueue(id) ~> \/ ~InQueue(id)
                   \/ HasStatus(id, "completed")
                   \/ HasStatus(id, "failed")

\* every call has ended; one job failed on a rejected request and is still
\* in the queue beside a job that is not
C31_Witness ==
  /\ Len(calls) = MaxConv
  /\ \A i \in DOMAIN calls : calls[i].phase = "done"
  /\ \E id \in ConvIds : HasStatus(id, "failed") /\ calls[id].status = 0
  /\ \E id \in ConvIds : ~HasStatus(id, "failed")

\* C32: when transcribeAudio returns empty text for a transcribe request, the
\* stored transcriptions stay as they are (none is created, an existing one
\* keeps its text) and the request is answered with status 500.
C32_EmptyTextStoresNothing ==
  [][\A i \in DOMAIN calls :
       ExternalReturns(i, "empty") =>
         /\ transcriptions' = transcriptions
         /\ calls'[i].phase = "responded"
         /\ calls'[i].status = 500]_vars

\* an empty text answered for a conversation whose transcription, stored by
\* another request, is still there
C32_Witness ==
  \E i \in DOMAIN calls :
    /\ calls[i].error = "OpenAI transcription returned empty text"
    /\ calls[i].status = 500
    /\ \E t \in GetTranscription(transcriptions, calls[i].conversationId) :
         t.text # TextOf(i)

\* C33: a save attempted without an audio blob, without a student name, or
\* whose POST /api/conversations fails leaves the transcription queue and the
\* dispatched calls as they are and the handler at rest; a job that enters the
\* queue and a call that is dispatched are for a stored conversation.
C33_EnqueueOnlyPersisted ==
  [][/\ \A b \in BOOLEAN, n \in Names, ok \in BOOLEAN :
          (SaveSubmit(b, n, ok) /\ (~b \/ n = "" \/ ~ok)) =>
            /\ transcriptionQueue' = transcriptionQueue
            /\ calls' = calls
            /\ savePc' = "idle"
     /\ \A id \in ConvIds :
          (~InQueue(id) /\ InQueue(id)') => GetConversation(id) # {}
     /\ Len(calls') > Len(calls) =>
          GetConversation(calls'[Len(calls')].conversationId) # {}]_vars

\* every stored conversation has its job and its call, one of them still
\* waiting for the answer
C33_Witness ==
  /\ Cardinality(conversations) = MaxConv
  /\ \A c \in conversations :
       /\ InQueue(c.id)
       /\ \E i \in DOMAIN calls : calls[i].conversationId = c.id
  /\ \E id \in ConvIds : HasStatus(id, "processing")
  /\ Len(calls) = Cardinality(conversations)

\* C34: once a capture that the user stopped has delivered its last events and
\* holds audio, the blob loaded into the player is the blob of all its chunks.
C34_StopLoadsFinalBlob ==
  ( /\ hist.lastCall.op = "stop"
    /\ hist.lastCall.found \in {"recording", "paused"}
    /\ dev.stopping = {}
    /\ rec.audioChunks # <<>> )
  => /\ lastSeek.op = "load"
     /\ lastSeek.arg = Len(rec.audioChunks)

\* C35: after resetSession(), with the recorder inactive, its last events
\* delivered and no start() call made, the cleared recordingState of the
\* store stays cleared.
C35_ResetStaysCleared ==
  [][( /\ storeCall.op = "resetSession"
       /\ recordingState = InitialRecordingState
       /\ RecorderState(rec, dev) \notin {"recording", "paused"}
       /\ dev.stopping = {}
       /\ startCalls' = startCalls )
     => recordingState' = InitialRecordingState]_vars

\* C36: a timer of the auto-removal effect removes only jobs that are
\* completed when it fires; a job enqueued again under the conversationId of
\* the timer that is pending, processing or failed stays in the queue.
C36_EvictsCompletedOnly ==
  [][\A t \in evictionTimers :
       EvictionFires(t) =>
         \A i \in JobsOf(transcriptionQueue, t.id) :
           transcriptionQueue[i].status = "completed"]_vars

\* C37: the store holds at most one transcription for every conversation,
\* however the transcribe requests for one conversation overlap.
C37_OneTranscriptionPerConversation ==
  \A c \in ConvIds : Cardinality(GetTranscription(transcriptions, c)) <= 1

\* two requests for one conversation were both answered with a text, and the
\* conversation has the one transcription that the later of them updated
C37_Witness ==
  \E i, j \in DOMAIN calls :
    /\ i # j
    /\ calls[i].conversationId = calls[j].conversationId
    /\ calls[i].status = 200
    /\ calls[j].status = 200
    /\ \E t \in GetTranscription(transcriptions, calls[i].conversationId) :
         /\ t.isEdited
         /\ t.text = TextOf(i)
    /\ Cardinality(GetTranscription(transcriptions, calls[i].conversationId)) = 1

\* C38: every stored transcription is of a conversation that is in the store,
\* also when the conversation is deleted while a transcribe request for it
\* waits for the service.
C38_NoOrphanTranscription ==
  \A t \in transcriptions : GetConversation(t.conversationId) # {}

\* C39: in every RecordingState the capture engine hands to the callback,
\* isPaused implies isRecording, and both are false when the engine has no
\* recorder or its recorder is inactive.
C39_FlagsFollowRecorder ==
  [][recordingState' # recordingState =>
       /\ recordingState'.isPaused => recordingState'.isRecording
       /\ RecorderState(rec', dev') \in {"none", "inactive"} =>
            /\ ~recordingState'.isRecording
            /\ ~recordingState'.isPaused]_vars

\* a paused recorder was stopped and its onstop handler has reported
C39_Witness ==
  /\ hist.lastCall = [op |-> "stop", found |-> "paused"]
  /\ dev.stopping = {}
  /\ RecorderState(rec, dev) = "inactive"
  /\ rec.updateCallback
  /\ ~recordingState.isRecording
  /\ ~recordingState.isPaused

====
